---- MODULE Spec2Model ----
(***************************************************************************)
(* A model of the vetsa2bids correction scripts: the pepolar split/merge   *)
(* of the wave 2 functional runs and the frame-axis splits of the wave 1,  *)
(* 2 and 3 diffusion runs, run by each script's main over a subject list.  *)
(*                                                                         *)
(* A subject's folder is a set of directories and a map from file paths    *)
(* to file contents.  An image is its frame list (each frame a list of     *)
(* voxel planes along the y axis, axis 1 of the array) with its affine;    *)
(* a JSON sidecar is a map from keys to values.  nibabel's load and save   *)
(* are taken to store the array as given.                                  *)
(***************************************************************************)
EXTENDS Integers, Sequences, FiniteSets, TLC

VARIABLES script, argv, bids_dir, subject_list, df, idx, pc, disk, disk0, pre, last,
          successful_subjects, unsuccessful_subjects

vars == <<script, argv, bids_dir, subject_list, df, idx, pc, disk, disk0, pre, last,
          successful_subjects, unsuccessful_subjects>>

(***************************************************************************)
(* Bounds of the model.                                                    *)
(***************************************************************************)
\* Longest volume the function-level harness draws.
MaxFrames == 4
\* Size of the y axis (axis 1) of every image.
YDim == 2
\* Longest subject list main is run on.
MaxSubjects == 2
\* The longest csv file, in rows.
MaxRows == 2

Subjects == {"s1", "s2"}
Voxels == {0, 1}

\* The dataset directory as given on the command line, without and with a
\* trailing separator.
BidsDirs == {"/data/bids", "/data/bids/"}

(***************************************************************************)
(* Paths.  A file name sub-<id>_ses-NN[_task-rest][_acq-A][_dir-D]         *)
(* [_desc-T]_<suffix><ext> under sub-<id>/ses-NN/<folder> is the record of *)
(* its variable parts; str.replace on a name rewrites one part.            *)
(***************************************************************************)
Path(folder, acq, pe, desc, suffix, ext) ==
    [folder |-> folder, acq |-> acq, pe |-> pe, desc |-> desc,
     suffix |-> suffix, ext |-> ext]

WithExt(p, e) == [p EXCEPT !.ext = e]
WithDir(p, d) == [p EXCEPT !.pe = d]

NoFiles == [p \in {} |-> 0]

Put(f, p, c) == [q \in (DOMAIN f) \cup {p} |-> IF q = p THEN c ELSE f[q]]
Del(f, p) == [q \in (DOMAIN f) \ {p} |-> f[q]]

Nii(ndim, data, affine) ==
    [kind |-> "nii", ndim |-> ndim, data |-> data, affine |-> affine]
Json(d) == [kind |-> "json", d |-> d]
Txt(rows) == [kind |-> "txt", rows |-> rows]

\* The dict {k: v}
Key(k, v) == k :> v

(***************************************************************************)
(* The state of one subject's processing: its folder, the result so far    *)
(* ("run" while the function body is executing, then "ok" for a returned   *)
(* value, "none" for a returned None, "raise" for an uncaught exception,   *)
(* "exit" for sys.exit), the steps that ran and the messages printed.      *)
(***************************************************************************)
isfile(st, p) == p \in DOMAIN st.files
isdir(st, d) == d \in st.dirs
raise(st) == [st EXCEPT !.res = "raise"]
return_none(st) == [st EXCEPT !.res = "none"]
return_value(st) == [st EXCEPT !.res = "ok"]
sys_exit(st) == [st EXCEPT !.res = "exit"]
print(st, m) == [st EXCEPT !.out = Append(@, m)]
ran(st, name) == [st EXCEPT !.steps = Append(@, name)]
Bind(st, F(_)) == IF st.res = "run" THEN F(st) ELSE st

\* Faulty variant: the image is built without the affine of its source.
Nifti1Image_without_affine(ndim, data, affine) == Nii(ndim, data, <<"identity", "">>)

\* nib.Nifti1Image(data, img.affine, img.header)
Nifti1Image(ndim, data, affine) == Nii(ndim, data, affine)

\* nib.save / open(p, 'w'): creates or overwrites the file; the folder must exist.
save(st, p, c) ==
    IF p.folder \in st.dirs
    THEN [st EXCEPT !.files = Put(@, p, c)]
    ELSE raise(st)

(***************************************************************************)
(* numpy on the frame axis (axis 3) and the y axis (axis 1).  Indices are  *)
(* numpy's, 0-based; a TLA+ sequence is 1-based.                           *)
(***************************************************************************)
\* np.arange(start, stop, step) for step > 0.
arange(start, stop, step) ==
    LET n == IF stop > start THEN (stop - start + step - 1) \div step ELSE 0
    IN [k \in 1..n |-> start + (k - 1) * step]

\* data[:, :, :, indices]
take(data, indices) == [k \in 1..Len(indices) |-> data[indices[k] + 1]]

\* Faulty variant: the slice takes the frame at its stop index as well.
slice_through_stop(data, a, b) ==
    LET hi == IF b + 1 < Len(data) THEN b + 1 ELSE Len(data)
    IN [k \in 1..(IF hi > a THEN hi - a ELSE 0) |-> data[a + k]]

\* data[:, :, :, a:b] with 0 <= a
slice(data, a, b) ==
    LET hi == IF b < Len(data) THEN b ELSE Len(data)
    IN [k \in 1..(IF hi > a THEN hi - a ELSE 0) |-> data[a + k]]

\* Faulty variant: every row of the frame takes the last row.
FlipY_last_row(f) == [y \in 1..Len(f) |-> f[Len(f)]]

\* np.flip(frame, axis=1) of one frame
FlipY(f) == [y \in 1..Len(f) |-> f[Len(f) + 1 - y]]

\* np.flip(data, axis=1)
np_flip(data) == [k \in 1..Len(data) |-> FlipY(data[k])]

\* Number of slots of merged[..., first::2] in an array of `total` frames.
nslots(total, first) ==
    IF total > first THEN (total - first + 1) \div 2 ELSE 0

\* merged[..., first::2] = value is accepted when the value has as many frames
\* as there are slots, or one frame (which numpy broadcasts to every slot).
can_assign(value, n) == Len(value) = n \/ Len(value) = 1

\* The frame slot k (1-based) of such an assignment receives.
assigned(value, k) == IF Len(value) = 1 THEN value[1] ELSE value[k]

(***************************************************************************)
(* 4_wave2_prep-fmri.py (the same functions are in                         *)
(* bids_conversion/4_wave2_fmri-ucsd-split-ape.py and, for split and       *)
(* merge, in bids_conversion/4_wave2_fmri-sdc-ucsd.py).                    *)
(***************************************************************************)
bold_file == Path("func", "", "", "", "bold", ".nii.gz")
ExpectedFuncVols == 100

\* Faulty variant: the AP indices start at 1, as the PA indices do.
indices_AP_from_one(data) == arange(1, Len(data), 2)

\* indices_AP = np.arange(0, data.shape[-1], 2)
indices_AP(data) == arange(0, Len(data), 2)

\* Faulty variant: the PA indices start at 0, as the AP indices do.
indices_PA_from_zero(data) == arange(0, Len(data), 2)

\* indices_PA = np.arange(1, data.shape[-1], 2)
indices_PA(data) == arange(1, Len(data), 2)

\* Faulty variant: the AP frames are saved without the flip.
flip_extracted_AP_omitted(extracted_data_AP) == extracted_data_AP

\* extracted_data_AP = np.flip(extracted_data_AP, axis=1)
flip_extracted_AP(extracted_data_AP) == np_flip(extracted_data_AP)

\* extracted_data_PA is saved as extracted.
keep_extracted_PA(extracted_data_PA) == extracted_data_PA

split_func_run(st, func_file) ==
    IF ~isfile(st, func_file) THEN raise(st)
    ELSE
    LET img == st.files[func_file]
        data == img.data
    IN  IF img.ndim # 4 THEN raise(st)
        ELSE
        LET extracted_data_AP == flip_extracted_AP(take(data, indices_AP(data)))
            extracted_data_PA == keep_extracted_PA(take(data, indices_PA(data)))
            func_file_AP == WithDir(func_file, "AP")
            func_file_PA == WithDir(func_file, "PA")
            s1 == save(st, func_file_AP, Nifti1Image(4, extracted_data_AP, img.affine))
            s2 == Bind(s1, LAMBDA s:
                       save(s, func_file_PA, Nifti1Image(4, extracted_data_PA, img.affine)))
        IN Bind(s2, LAMBDA s: ran(s, "split_func_run"))

\* Faulty variant: both slice assignments take data_AP.
merged_frame_AP_twice(data_AP, data_PA, i) ==
    IF i % 2 = 1 THEN assigned(data_AP, (i + 1) \div 2)
                 ELSE assigned(data_AP, i \div 2)

\* merged_data[:, :, :, ::2] = data_AP ; merged_data[:, :, :, 1::2] = data_PA :
\* the frame at 1-based position i of the merged array.
merged_frame(data_AP, data_PA, i) ==
    IF i % 2 = 1 THEN assigned(data_AP, (i + 1) \div 2)
                 ELSE assigned(data_PA, i \div 2)

\* Whether the two slice assignments are accepted by numpy.
merge_accepts(data_AP, data_PA) ==
    LET total == Len(data_AP) + Len(data_PA)
    IN  /\ can_assign(data_AP, nslots(total, 0))
        /\ can_assign(data_PA, nslots(total, 1))

merge_func_files(st, func_file_AP, func_file_PA) ==
    IF ~isfile(st, func_file_AP) \/ ~isfile(st, func_file_PA) THEN raise(st)
    ELSE
    LET img_AP == st.files[func_file_AP]
        img_PA == st.files[func_file_PA]
        data_AP == img_AP.data
        data_PA == img_PA.data
        total == Len(data_AP) + Len(data_PA)
    IN  IF img_AP.ndim # 4 \/ img_PA.ndim # 4 THEN raise(st)
        ELSE IF ~merge_accepts(data_AP, data_PA) THEN raise(st)
        ELSE
        LET merged_data == [i \in 1..total |-> merged_frame(data_AP, data_PA, i)]
            merged_func_file == WithDir(func_file_AP, "")
            s1 == save(st, merged_func_file, Nifti1Image(4, merged_data, img_AP.affine))
        IN Bind(s1, LAMBDA s: ran(s, "merge_func_files"))

\* fsl.ApplyTOPUP on one split file (4_wave2_fmri-sdc-ucsd.py): an external
\* tool; it writes <name>_desc-topup_bold.nii.gz holding `out` frames.
apply_topup(st, func_file, out) ==
    IF ~isfile(st, func_file) THEN raise(st)
    ELSE
    LET s1 == save(st, [func_file EXCEPT !.desc = "topup"],
                   Nii(4, out, st.files[func_file].affine))
    IN Bind(s1, LAMBDA s: ran(s, "apply_topup"))

\* What the external tool may return for `data`: the frames as they are, or
\* fewer of them.
TopupOutputs(data) ==
    {data} \cup (IF Len(data) > 1 THEN {SubSeq(data, 1, Len(data) - 1)} ELSE {})

(***************************************************************************)
(* JSON sidecars: a dict is a function from its keys.                      *)
(***************************************************************************)
\* A reference to the image file p of subject sub, as written to
\* IntendedFor: what precedes "sub-<sub>/..." in the string is the scheme.
Ref(scheme, sub, p) == [scheme |-> scheme, sub |-> sub, path |-> p]

\* file.replace(f"{bids_dir}/", "bids::") for a file made with
\* os.path.join(bids_dir, f"sub-{sub}", ...): join puts one separator after
\* bids_dir, so when bids_dir itself ends with a separator the string
\* f"{bids_dir}/" does not occur in the path, which stays as it is.
replace_bids_dir(sub, p) ==
    IF bids_dir = "/data/bids/" THEN Ref(bids_dir, sub, p)
    ELSE Ref("bids::", sub, p)

\* json.load(open(p)) is possible.
readable(st, p) == isfile(st, p) /\ st.files[p].kind = "json"

check_func_folder(st) ==
    IF ~isdir(st, "func") THEN print(st, "No func folder found")
    ELSE IF ~isdir(st, "fmap") THEN print(st, "No fmap folder found")
    ELSE st

check_func_folder_ret(st) == isdir(st, "func") /\ isdir(st, "fmap")

\* get_site of 4_wave2_prep-fmri.py and 4_wave2_fmri-ucsd-split-ape.py: the
\* site, or None after a message for any other model.
get_site_ret(st, func_file) ==
    LET func_model == st.files[WithExt(func_file, ".json")].d["ManufacturersModelName"]
    IN  IF func_model = "TrioTim" THEN "BU"
        ELSE IF func_model = "DISCOVERY MR750" THEN "UCSD"
        ELSE "None"

get_site(st, func_file) ==
    LET func_json_file == WithExt(func_file, ".json")
    IN  IF ~readable(st, func_json_file) THEN raise(st)
        ELSE IF "ManufacturersModelName" \notin DOMAIN st.files[func_json_file].d
             THEN raise(st)
        ELSE IF get_site_ret(st, func_file) = "None"
             THEN print(st, "Unknown manufacturer model")
        ELSE st

\* get_nvols: nib.load(func_file).get_fdata().shape[3]
get_nvols(st, func_file) ==
    IF ~isfile(st, func_file) THEN raise(st)
    ELSE IF st.files[func_file].ndim # 4 THEN raise(st)
    ELSE st

get_nvols_ret(st, func_file) == Len(st.files[func_file].data)

\* Faulty variant: the copy is left as the template has it.
with_direction_of_template(func_json, direction) == func_json

\* func_json.copy() with ['PhaseEncodingDirection'] = direction
with_direction(func_json, direction) ==
    Put(func_json, "PhaseEncodingDirection", direction)

create_split_func_json(st, func_file_AP, func_file_PA, func_json_file) ==
    IF ~readable(st, func_json_file) THEN raise(st)
    ELSE
    LET func_json == st.files[func_json_file].d
        func_json_AP == with_direction(func_json, "j-")
        func_json_PA == with_direction(func_json, "j")
        s1 == save(st, WithExt(func_file_AP, ".json"), Json(func_json_AP))
        s2 == Bind(s1, LAMBDA s: save(s, WithExt(func_file_PA, ".json"), Json(func_json_PA)))
    IN Bind(s2, LAMBDA s: ran(s, "create_split_func_json"))

\* add_intended: the file name is rebound to the loaded dict, so the
\* open(fmap_json, 'w') that follows is given a dict and raises TypeError.
add_intended(st, fmap_json, intended_for) ==
    IF ~isfile(st, fmap_json)
    THEN print(st, "No json file found. Skipping...")
    ELSE raise(st)

\* Faulty variant: the key is left in the dict.
pop_PhaseEncodingDirection_kept(func_json) == func_json

\* func_json.pop('PhaseEncodingDirection')
pop_PhaseEncodingDirection(func_json) == Del(func_json, "PhaseEncodingDirection")

\* edit_ucsd_bold_json (edit_bold_json in the bids_conversion scripts)
edit_ucsd_bold_json(st, func_json_file) ==
    IF ~readable(st, func_json_file) THEN raise(st)
    ELSE
    LET func_json == st.files[func_json_file].d
    IN  IF "PhaseEncodingDirection" \notin DOMAIN func_json THEN raise(st)
        ELSE
        LET edited == Put(pop_PhaseEncodingDirection(func_json), "TaskName", "rest")
            s1 == save(st, func_json_file, Json(edited))
        IN Bind(s1, LAMBDA s: ran(s, "edit_bold_json"))

edit_BU_bold_json(st, func_json_file) ==
    IF ~readable(st, func_json_file) THEN raise(st)
    ELSE
    LET s1 == save(st, func_json_file,
                   Json(Put(st.files[func_json_file].d, "TaskName", "rest")))
    IN Bind(s1, LAMBDA s: ran(s, "edit_BU_bold_json"))

fmap_func_json(pe) == Path("fmap", "func", pe, "", "epi", ".json")

\* Faulty variant: the frame count is not compared before the split.
nvols_unchecked(func_nvols) == FALSE

\* if func_nvols != 100
nvols_wrong(func_nvols) == func_nvols # ExpectedFuncVols

process_ucsd_func(st, vetsaid, func_file) ==
    LET s0 == get_nvols(st, func_file)
    IN  IF s0.res # "run" THEN s0
        ELSE IF nvols_wrong(get_nvols_ret(s0, func_file))
             THEN return_none(print(s0, "Functional run has the wrong number of volumes"))
        ELSE
        LET func_file_AP == WithDir(func_file, "AP")
            func_file_PA == WithDir(func_file, "PA")
            func_json_file == WithExt(func_file, ".json")
            s1 == split_func_run(s0, func_file)
            s2 == Bind(s1, LAMBDA s:
                    create_split_func_json(s, func_file_AP, func_file_PA, func_json_file))
            s3 == Bind(s2, LAMBDA s: merge_func_files(s, func_file_AP, func_file_PA))
            s4 == Bind(s3, LAMBDA s: edit_ucsd_bold_json(s, func_json_file))
            s5 == Bind(s4, LAMBDA s:
                    add_intended(s, fmap_func_json("AP"), replace_bids_dir(vetsaid, func_file_AP)))
            s6 == Bind(s5, LAMBDA s:
                    add_intended(s, fmap_func_json("PA"), replace_bids_dir(vetsaid, func_file_PA)))
        IN Bind(s6, return_value)

process_bu_func(st, vetsaid, func_file) ==
    LET fmap_AP_json == fmap_func_json("AP")
        intended_for == replace_bids_dir(vetsaid, func_file)
        s1 == edit_BU_bold_json(st, WithExt(func_file, ".json"))
        s2 == Bind(s1, LAMBDA s: add_intended(s, fmap_AP_json, intended_for))
        \* with open(fmap_AP_json, 'r'): the file is read whether or not it exists
        s3 == Bind(s2, LAMBDA s:
                IF ~readable(s, fmap_AP_json) THEN raise(s)
                ELSE save(s, fmap_AP_json,
                          Json(Put(s.files[fmap_AP_json].d, "PhaseEncodingDirection", "j"))))
        s4 == Bind(s3, LAMBDA s: add_intended(s, fmap_func_json("PA"), intended_for))
    IN Bind(s4, return_value)

\* process_func_run of 4_wave2_prep-fmri.py
prep_process_func_run(st, vetsaid) ==
    LET func_file == bold_file
        s0 == get_site(st, func_file)
    IN  IF s0.res # "run" THEN s0
        ELSE IF get_site_ret(s0, func_file) = "BU" THEN process_bu_func(s0, vetsaid, func_file)
        ELSE IF get_site_ret(s0, func_file) = "UCSD" THEN process_ucsd_func(s0, vetsaid, func_file)
        ELSE return_none(print(s0, "Unknown site"))

\* The body of main's loop in 4_wave2_prep-fmri.py.
prep_main_body(st, vetsaid) ==
    LET s0 == check_func_folder(st)
    IN  IF ~check_func_folder_ret(st)
        THEN return_none(print(s0, "Functional folders not found, skipping..."))
        ELSE
        LET s1 == prep_process_func_run(s0, vetsaid)
        IN  IF s1.res = "ok"
            THEN print(s1, "Finished processing functional run successfully")
            ELSE s1

\* check_func_data of 4_wave2_fmri-ucsd-split-ape.py
check_func_data(st, func_file) ==
    LET s0 == get_site(st, func_file)
    IN  IF s0.res # "run" THEN s0
        ELSE IF get_site_ret(s0, func_file) # "UCSD"
             THEN return_none(print(s0, "Functional run was not acquired at UCSD"))
        ELSE
        LET s1 == get_nvols(s0, func_file)
        IN  IF s1.res # "run" THEN s1
            ELSE IF nvols_wrong(get_nvols_ret(s1, func_file))
                 THEN return_none(print(s1, "Functional run has the wrong number of volumes"))
            ELSE s1

\* process_func_run of 4_wave2_fmri-ucsd-split-ape.py
ape_process_func_run(st, vetsaid) ==
    LET func_file == bold_file
        s0 == check_func_data(st, func_file)
    IN  IF s0.res = "none"
        THEN print(s0, "Subject could not be processed successfully, skipping...")
        ELSE IF s0.res # "run" THEN s0
        ELSE
        LET func_file_AP == WithDir(func_file, "AP")
            func_file_PA == WithDir(func_file, "PA")
            func_json_file == WithExt(func_file, ".json")
            s1 == split_func_run(s0, func_file)
            s2 == Bind(s1, LAMBDA s:
                    create_split_func_json(s, func_file_AP, func_file_PA, func_json_file))
            s3 == Bind(s2, LAMBDA s: merge_func_files(s, func_file_AP, func_file_PA))
            s4 == Bind(s3, LAMBDA s: edit_ucsd_bold_json(s, func_json_file))
        IN Bind(s4, return_value)

\* The body of main's loop in 4_wave2_fmri-ucsd-split-ape.py.
ape_main_body(st, vetsaid) ==
    LET s0 == check_func_folder(st)
    IN  IF ~check_func_folder_ret(st)
        THEN return_none(print(s0, "Functional folders not found, skipping..."))
        ELSE
        LET s1 == ape_process_func_run(s0, vetsaid)
        IN  IF s1.res = "ok"
            THEN print(s1, "Finished processing functional run successfully")
            ELSE s1

(***************************************************************************)
(* bids_conversion/4_wave2_fmri-sdc-ucsd.py.  The script does not import   *)
(* sys, so a reference to sys.exit raises NameError.  FSL's merge and      *)
(* topup are external tools: they need their input files and write their   *)
(* output files.                                                           *)
(***************************************************************************)
fmap_func_file(pe) == WithExt(fmap_func_json(pe), ".nii.gz")

\* get_site of 4_wave2_fmri-sdc-ucsd.py: an unknown model is printed and the
\* sys.exit(1) that follows raises NameError.
sdc_get_site(st, func_file) ==
    LET s0 == get_site(st, func_file)
    IN  IF s0.res = "run" /\ get_site_ret(s0, func_file) = "None"
        THEN raise(s0)
        ELSE s0

\* check_func_data of 4_wave2_fmri-sdc-ucsd.py
sdc_check_func_data(st, func_file) ==
    LET s0 == sdc_get_site(st, func_file)
    IN  IF s0.res # "run" THEN s0
        ELSE IF get_site_ret(s0, func_file) # "UCSD"
             THEN return_none(print(s0, "Functional run was not acquired at UCSD"))
        ELSE
        LET s1 == get_nvols(s0, func_file)
        IN  IF s1.res # "run" THEN s1
            ELSE IF nvols_wrong(get_nvols_ret(s1, func_file))
                 THEN return_none(print(s1, "Functional run has the wrong number of volumes"))
            ELSE s1

\* combine_fmaps: fsl.Merge along t of the two fieldmaps.
combine_fmaps(st, fmap_file_AP, fmap_file_PA) ==
    IF ~isfile(st, fmap_file_AP) \/ ~isfile(st, fmap_file_PA) THEN raise(st)
    ELSE
    LET fmap_combined == [WithDir(fmap_file_AP, "") EXCEPT !.desc = "combined"]
        s1 == save(st, fmap_combined,
                   Nii(4, st.files[fmap_file_AP].data \o st.files[fmap_file_PA].data,
                       st.files[fmap_file_AP].affine))
    IN Bind(s1, LAMBDA s: ran(s, "combine_fmaps"))

create_acqparams_file(st, fmap_file_AP) ==
    LET fmap_json_file == WithExt(fmap_file_AP, ".json")
    IN  IF ~readable(st, fmap_json_file) THEN raise(st)
        ELSE IF "TotalReadoutTime" \notin DOMAIN st.files[fmap_json_file].d THEN raise(st)
        ELSE
        LET total_readout_time == st.files[fmap_json_file].d["TotalReadoutTime"]
            acqparams_file == Path("fmap", "func", "", "", "acqparams", ".txt")
        IN save(st, acqparams_file,
                Txt(<< <<0, 1, 0, total_readout_time>>, <<0, -1, 0, total_readout_time>> >>))

create_topup_input(st, fmap_file_AP, fmap_file_PA) ==
    Bind(combine_fmaps(st, fmap_file_AP, fmap_file_PA),
         LAMBDA s: create_acqparams_file(s, fmap_file_AP))

\* calc_topup_params: fsl.TOPUP writes its corrected image next to the
\* combined fieldmap.
calc_topup_params(st, fmap_combined) ==
    LET s1 == save(st, [fmap_combined EXCEPT !.desc = "topup"], st.files[fmap_combined])
    IN Bind(s1, LAMBDA s: ran(s, "calc_topup_params"))

\* What fsl.ApplyTOPUP returns for the frames of one split file.
topup_output(data, whole) ==
    IF whole \/ Len(data) <= 1 THEN data ELSE SubSeq(data, 1, Len(data) - 1)

\* process_func_run of 4_wave2_fmri-sdc-ucsd.py; whole_AP and whole_PA say
\* what the external correction returns for each split file.
sdc_process_func_run(st, vetsaid, whole_AP, whole_PA) ==
    LET func_file == bold_file
        fmap_file_AP == fmap_func_file("AP")
        fmap_file_PA == fmap_func_file("PA")
        s0 == sdc_check_func_data(st, func_file)
    IN  IF s0.res # "run" THEN s0
        ELSE
        LET func_file_AP == WithDir(func_file, "AP")
            func_file_PA == WithDir(func_file, "PA")
            fmap_combined == [WithDir(fmap_file_AP, "") EXCEPT !.desc = "combined"]
            s1 == create_topup_input(s0, fmap_file_AP, fmap_file_PA)
            s2 == Bind(s1, LAMBDA s: calc_topup_params(s, fmap_combined))
            s3 == Bind(s2, LAMBDA s: split_func_run(s, func_file))
            s4 == Bind(s3, LAMBDA s:
                    apply_topup(s, func_file_AP,
                                topup_output(s.files[func_file_AP].data, whole_AP)))
            s5 == Bind(s4, LAMBDA s:
                    apply_topup(s, func_file_PA,
                                topup_output(s.files[func_file_PA].data, whole_PA)))
            s6 == Bind(s5, LAMBDA s:
                    merge_func_files(s, [func_file_AP EXCEPT !.desc = "topup"],
                                        [func_file_PA EXCEPT !.desc = "topup"]))
            s7 == Bind(s6, LAMBDA s: edit_ucsd_bold_json(s, WithExt(func_file, ".json")))
        IN Bind(s7, return_value)

\* The body of main's loop in 4_wave2_fmri-sdc-ucsd.py: the result of
\* process_func_run is unpacked into two names, which raises TypeError when
\* it is None.
sdc_main_body(st, vetsaid, whole_AP, whole_PA) ==
    LET s0 == check_func_folder(st)
    IN  IF ~check_func_folder_ret(st) THEN return_none(s0)
        ELSE
        LET s1 == sdc_process_func_run(s0, vetsaid, whole_AP, whole_PA)
        IN  IF s1.res = "none" THEN raise(s1) ELSE s1

(***************************************************************************)
(* Helpers shared by the diffusion scripts.                                *)
(***************************************************************************)
\* Faulty variant: the source file is left where it was.
move_leaves_source(st, src, dst) ==
    IF ~isfile(st, src) THEN raise(st)
    ELSE [st EXCEPT !.files = Put(@, dst, st.files[src])]

\* shutil.move(src, dst) within one folder: dst is replaced.
move(st, src, dst) ==
    IF ~isfile(st, src) THEN raise(st)
    ELSE [st EXCEPT !.files = Put(Del(@, src), dst, st.files[src])]

\* shutil.copy / shutil.copyfile
copy(st, src, dst) ==
    IF ~isfile(st, src) THEN raise(st)
    ELSE save(st, dst, st.files[src])

\* os.makedirs(d, exist_ok=True)
makedirs(st, d) == [st EXCEPT !.dirs = @ \cup {d}]

check_dwi_folder(st) ==
    IF ~isdir(st, "dwi") THEN print(st, "No dwi folder found") ELSE st

\* check_dwi_nvols: nib.load and data.shape[3]
check_dwi_nvols(st, dwi_file) ==
    IF ~isfile(st, dwi_file) THEN raise(st)
    ELSE IF st.files[dwi_file].ndim # 4 THEN raise(st)
    ELSE st

NoAlt == -1

check_dwi_nvols_ret(st, dwi_file, nvols, alt_nvols) ==
    LET n == Len(st.files[dwi_file].data)
    IN  IF n = nvols THEN TRUE
        ELSE IF alt_nvols # NoAlt THEN n = alt_nvols
        ELSE FALSE

\* row.split()[:n] / row.split()[n:] for every row, written back joined.
\* Faulty variant: the second file starts one value late.
rows_tail_late(rows, n) == [r \in 1..Len(rows) |-> slice(rows[r], n + 1, Len(rows[r]))]

\* [row.split()[:n] for row in rows] and [row.split()[n:] for row in rows]
rows_head(rows, n) == [r \in 1..Len(rows) |-> slice(rows[r], 0, n)]
rows_tail(rows, n) == [r \in 1..Len(rows) |-> slice(rows[r], n, Len(rows[r]))]

\* flip_ap_epi: the image is saved flipped along axis 1, with its affine.
flip_ap_epi(st, epi_ap_file) ==
    IF ~isfile(st, epi_ap_file) THEN raise(st)
    ELSE
    LET img == st.files[epi_ap_file]
        s1 == save(st, epi_ap_file, Nifti1Image(img.ndim, np_flip(img.data), img.affine))
    IN Bind(s1, LAMBDA s: ran(s, "flip_ap_epi"))

remove_first_n_values(st, file_path, n) ==
    IF ~isfile(st, file_path) THEN raise(st)
    ELSE save(st, file_path, Txt(rows_tail(st.files[file_path].rows, n)))

dwi_path(acq, pe, ext) == Path("dwi", acq, pe, "", "dwi", ext)
epi_path(acq, pe, ext) == Path("fmap", acq, pe, "", "epi", ext)

(***************************************************************************)
(* 3_wave1_correct_dwi_data.py                                             *)
(***************************************************************************)
W1_NVols == 70
W1_Half == 35
W1_EpiVols == 5

\* get_site of the diffusion scripts: sys.exit(1) for an unknown model.
dwi_get_site_ret(st, dwi_json_file, bu_model, ucsd_model) ==
    LET dwi_model == st.files[dwi_json_file].d["ManufacturersModelName"]
    IN  IF dwi_model = bu_model THEN "BU"
        ELSE IF dwi_model = ucsd_model THEN "UCSD"
        ELSE "exit"

\* Faulty variant: the message is printed and the function returns.
dwi_get_site_returns(st, dwi_json_file, bu_model, ucsd_model) ==
    IF ~readable(st, dwi_json_file) THEN raise(st)
    ELSE IF "ManufacturersModelName" \notin DOMAIN st.files[dwi_json_file].d THEN raise(st)
    ELSE IF dwi_get_site_ret(st, dwi_json_file, bu_model, ucsd_model) = "exit"
         THEN print(st, "Unknown manufacturer model")
    ELSE st

\* get_site of the wave 1 and wave 2 diffusion scripts: sys.exit(1) after the
\* message for any other model.
dwi_get_site(st, dwi_json_file, bu_model, ucsd_model) ==
    IF ~readable(st, dwi_json_file) THEN raise(st)
    ELSE IF "ManufacturersModelName" \notin DOMAIN st.files[dwi_json_file].d THEN raise(st)
    ELSE IF dwi_get_site_ret(st, dwi_json_file, bu_model, ucsd_model) = "exit"
         THEN sys_exit(print(st, "Unknown manufacturer model"))
    ELSE st

\* split_epis of wave 1: the first 5 volumes, to the fmap folder.
w1_split_epis(st, dwi_file) ==
    IF ~isfile(st, dwi_file) THEN raise(st)
    ELSE
    LET img == st.files[dwi_file]
        s0 == IF ~isdir(st, "fmap") THEN makedirs(st, "fmap") ELSE st
        epi_file == epi_path(dwi_file.acq, dwi_file.pe, ".nii.gz")
    IN  IF img.ndim # 4 THEN raise(st)
        ELSE Bind(save(s0, epi_file, Nifti1Image(4, slice(img.data, 0, W1_EpiVols), img.affine)),
                  LAMBDA s: ran(s, "split_epis"))

w1_create_single_shell_epi_jsons(st, vetsaid, epi_file, dwi_file) ==
    LET dwi_json == WithExt(dwi_file, ".json")
        epi_json == WithExt(epi_file, ".json")
        s1 == copy(st, dwi_json, epi_json)
        s2 == Bind(s1, LAMBDA s:
                save(s, epi_json,
                     Json(Put(s.files[epi_json].d, "IntendedFor",
                              replace_bids_dir(vetsaid, dwi_file)))))
    IN Bind(s2, LAMBDA s: ran(s, "create_single_shell_epi_jsons"))

\* split_dwi (wave 1, at 35) and split_bu_dwi (wave 2, at 31)
split_dwi(st, single_dwi_file_new, half) ==
    IF ~isfile(st, single_dwi_file_new) THEN raise(st)
    ELSE
    LET img == st.files[single_dwi_file_new]
        data == img.data
    IN  IF img.ndim # 4 THEN raise(st)
        ELSE
        LET s1 == save(st, single_dwi_file_new, Nifti1Image(4, slice(data, 0, half), img.affine))
            s2 == Bind(s1, LAMBDA s:
                    save(s, WithDir(single_dwi_file_new, "PA"),
                         Nifti1Image(4, slice(data, half, Len(data)), img.affine)))
        IN Bind(s2, LAMBDA s: ran(s, "split_dwi"))

\* split_bval_bvec (wave 1, at 35) and split_bu_bval_bvec (wave 2, at 31)
split_bval_bvec(st, dwi_file, half) ==
    LET bvals_file == WithExt(dwi_file, ".bval")
        bvecs_file == WithExt(dwi_file, ".bvec")
    IN  IF ~isfile(st, bvals_file) \/ ~isfile(st, bvecs_file) THEN raise(st)
        ELSE
        LET bvals == st.files[bvals_file].rows
            bvecs == st.files[bvecs_file].rows
            s1 == save(st, bvals_file, Txt(rows_head(bvals, half)))
            s2 == Bind(s1, LAMBDA s:
                    save(s, WithDir(bvals_file, "PA"), Txt(rows_tail(bvals, half))))
            s3 == Bind(s2, LAMBDA s: save(s, bvecs_file, Txt(rows_head(bvecs, half))))
            s4 == Bind(s3, LAMBDA s:
                    save(s, WithDir(bvecs_file, "PA"), Txt(rows_tail(bvecs, half))))
        IN Bind(s4, LAMBDA s: ran(s, "split_bval_bvec"))

edit_single_shell_dwi_jsons(st, single_dwi_json_file_AP) ==
    IF ~readable(st, single_dwi_json_file_AP) THEN raise(st)
    ELSE
    LET AP == st.files[single_dwi_json_file_AP].d
    IN  IF "SliceTiming" \notin DOMAIN AP THEN raise(st)
        ELSE
        LET timing == AP["SliceTiming"]
            new_AP == Put(AP, "SliceTiming", slice(timing, 0, W1_Half))
            new_PA == Put(Put(AP, "SliceTiming", slice(timing, W1_Half, Len(timing))),
                          "PhaseEncodingDirection", "j")
            s1 == save(st, single_dwi_json_file_AP, Json(new_AP))
            s2 == Bind(s1, LAMBDA s:
                    save(s, WithDir(single_dwi_json_file_AP, "PA"), Json(new_PA)))
        IN Bind(s2, LAMBDA s: ran(s, "edit_single_shell_dwi_jsons"))

w1_process_single_shell_data(st, vetsaid) ==
    LET AP == dwi_path("", "AP", ".nii.gz")
        PA == dwi_path("", "PA", ".nii.gz")
        s0 == dwi_get_site(st, WithExt(AP, ".json"), "Avanto", "Symphony")
    IN  IF s0.res # "run" THEN s0
        ELSE
        LET c == check_dwi_nvols(s0, AP)
        IN  IF c.res # "run" THEN c
            ELSE IF ~check_dwi_nvols_ret(c, AP, W1_NVols, NoAlt)
                 THEN return_none(print(c, "Error: Incorrect number of volumes in dwi file"))
            ELSE
            LET s1 == split_dwi(c, AP, W1_Half)
                s2 == Bind(s1, LAMBDA s: split_bval_bvec(s, AP, W1_Half))
                s3 == Bind(s2, LAMBDA s: edit_single_shell_dwi_jsons(s, WithExt(AP, ".json")))
                s4 == Bind(s3, LAMBDA s: w1_split_epis(s, AP))
                s5 == Bind(s4, LAMBDA s: w1_split_epis(s, PA))
                s6 == Bind(s5, LAMBDA s:
                        w1_create_single_shell_epi_jsons(s, vetsaid,
                            epi_path("", "AP", ".nii.gz"), AP))
                s7 == Bind(s6, LAMBDA s:
                        w1_create_single_shell_epi_jsons(s, vetsaid,
                            epi_path("", "PA", ".nii.gz"), PA))
            IN Bind(s7, return_value)

\* The body of main's loop in 3_wave1_correct_dwi_data.py.
w1_main_body(st, vetsaid) ==
    IF ~isdir(st, "dwi")
    THEN return_none(print(check_dwi_folder(st), "No dwi folder found, skipping..."))
    ELSE IF ~isfile(st, dwi_path("", "AP", ".nii.gz"))
    THEN return_none(print(print(st, "No single-shell data found"),
                           "No single-shell data found in dwi folder, skipping..."))
    ELSE
    LET s1 == w1_process_single_shell_data(st, vetsaid)
    IN  IF s1.res = "none" THEN print(s1, "Error in processing subject")
        ELSE IF s1.res = "ok" THEN print(s1, "Finished processing subject")
        ELSE s1

(***************************************************************************)
(* 3_wave2_correct_dwi_data.py                                             *)
(***************************************************************************)
BU_NVols == 62
BU_Half == 31
UCSD_Single_NVols == 53

\* Faulty variant: the frame of the PA epi is removed as well.
from_third_frame(data) == slice(data, 2, Len(data))

\* data[:, :, :, 1:]
from_second_frame(data) == slice(data, 1, Len(data))

\* split_epis of waves 2 and 3: frame 0 is the AP epi, frame 1 the PA epi,
\* and the dwi file keeps frames 1 onward.
split_epis(st, dwi_file, epi_pa_file, epi_ap_file) ==
    IF ~isfile(st, dwi_file) THEN raise(st)
    ELSE
    LET img == st.files[dwi_file]
        data == img.data
    IN  IF img.ndim # 4 \/ Len(data) < 1 THEN raise(st)
        ELSE
        LET s1 == save(st, epi_ap_file, Nifti1Image(3, <<data[1]>>, img.affine))
            s2 == Bind(s1, LAMBDA s:
                    IF Len(data) < 2 THEN raise(s)
                    ELSE save(s, epi_pa_file, Nifti1Image(3, <<data[2]>>, img.affine)))
            s3 == Bind(s2, LAMBDA s:
                    save(s, dwi_file, Nifti1Image(4, from_second_frame(data), img.affine)))
        IN Bind(s3, LAMBDA s: ran(s, "split_epis"))

\* create_single_shell_epi_jsons / create_multi_shell_epi_jsons of waves 2
\* and 3: both epi sidecars are written from the PA dwi sidecar.
create_epi_jsons(st, vetsaid, acq, scheme) ==
    LET dwi_json_file == dwi_path(acq, "PA", ".json")
    IN  IF ~readable(st, dwi_json_file) THEN raise(st)
        ELSE IF "TotalReadoutTime" \notin DOMAIN st.files[dwi_json_file].d THEN raise(st)
        ELSE
        LET total_readout_time == st.files[dwi_json_file].d["TotalReadoutTime"]
            intended_for == Ref(scheme, vetsaid, dwi_path(acq, "PA", ".nii.gz"))
            epi_json(ped) ==
                Json(Put(Put(Put(NoFiles, "PhaseEncodingDirection", ped),
                             "TotalReadoutTime", total_readout_time),
                         "IntendedFor", intended_for))
            s1 == save(st, epi_path(acq, "AP", ".json"), epi_json("j-"))
            s2 == Bind(s1, LAMBDA s: save(s, epi_path(acq, "PA", ".json"), epi_json("j")))
        IN Bind(s2, LAMBDA s: ran(s, "create_epi_jsons"))

process_single_shell_data_BU(st, vetsaid) ==
    LET AP == dwi_path("single", "AP", ".nii.gz")
        AP_json == WithExt(AP, ".json")
        PA_json == dwi_path("single", "PA", ".json")
        single_epi_pa_json == epi_path("single", "PA", ".json")
        c == check_dwi_nvols(st, AP)
    IN  IF c.res # "run" THEN c
        ELSE IF ~check_dwi_nvols_ret(c, AP, BU_NVols, NoAlt)
             THEN return_none(print(c, "Error: Incorrect number of volumes in dwi file"))
        ELSE
        LET s1 == split_dwi(c, AP, BU_Half)
            s2 == Bind(s1, LAMBDA s: split_bval_bvec(s, AP, BU_Half))
            s3 == Bind(s2, LAMBDA s: copy(s, AP_json, PA_json))
            s4 == Bind(s3, LAMBDA s:
                    IF ~readable(s, PA_json) THEN raise(s)
                    ELSE save(s, PA_json,
                              Json(Put(s.files[PA_json].d, "PhaseEncodingDirection", "j"))))
            s5 == Bind(s4, LAMBDA s:
                    IF ~readable(s, single_epi_pa_json) THEN raise(s)
                    ELSE save(s, single_epi_pa_json,
                              Json(Put(s.files[single_epi_pa_json].d, "IntendedFor",
                                       Ref("bids::", vetsaid,
                                           dwi_path("single", "PA", ".nii.gz"))))))
        IN Bind(s5, return_none)

\* process_single_shell_data_UCSD of wave 2 and process_single_shell_data of
\* wave 3: the image is renamed before its frame count is checked.
process_single_shell_data_UCSD(st, vetsaid) ==
    LET AP(ext) == dwi_path("single", "AP", ext)
        PA(ext) == dwi_path("single", "PA", ext)
        s0 == move(st, AP(".nii.gz"), PA(".nii.gz"))
        c == Bind(s0, LAMBDA s: check_dwi_nvols(s, PA(".nii.gz")))
    IN  IF c.res # "run" THEN c
        ELSE IF ~check_dwi_nvols_ret(c, PA(".nii.gz"), UCSD_Single_NVols, NoAlt)
             THEN return_none(print(c, "Error: Incorrect number of volumes in dwi file"))
        ELSE
        LET s1 == move(c, AP(".json"), PA(".json"))
            s2 == Bind(s1, LAMBDA s: move(s, AP(".bval"), PA(".bval")))
            s3 == Bind(s2, LAMBDA s: move(s, AP(".bvec"), PA(".bvec")))
            s4 == Bind(s3, LAMBDA s: makedirs(s, "fmap"))
            s5 == Bind(s4, LAMBDA s:
                    split_epis(s, PA(".nii.gz"), epi_path("single", "PA", ".nii.gz"),
                               epi_path("single", "AP", ".nii.gz")))
            s6 == Bind(s5, LAMBDA s: flip_ap_epi(s, epi_path("single", "AP", ".nii.gz")))
            s7 == Bind(s6, LAMBDA s: remove_first_n_values(s, PA(".bval"), 1))
            s8 == Bind(s7, LAMBDA s: remove_first_n_values(s, PA(".bvec"), 1))
            s9 == Bind(s8, LAMBDA s: create_epi_jsons(s, vetsaid, "single", "bids::"))
        IN Bind(s9, return_none)

w2_process_single_shell_data(st, vetsaid) ==
    LET dwi_json_file == dwi_path("single", "AP", ".json")
        s0 == dwi_get_site(st, dwi_json_file, "TrioTim", "DISCOVERY MR750")
    IN  IF s0.res # "run" THEN s0
        ELSE IF dwi_get_site_ret(s0, dwi_json_file, "TrioTim", "DISCOVERY MR750") = "BU"
             THEN process_single_shell_data_BU(s0, vetsaid)
        ELSE process_single_shell_data_UCSD(s0, vetsaid)

\* The body of main's loop in 3_wave2_correct_dwi_data.py.
w2_main_body(st, vetsaid) ==
    IF ~isdir(st, "dwi") THEN return_none(check_dwi_folder(st))
    ELSE IF ~isfile(st, dwi_path("single", "AP", ".nii.gz"))
    THEN return_none(print(st, "No single-shell data found"))
    ELSE w2_process_single_shell_data(st, vetsaid)

(***************************************************************************)
(* bids_conversion/3_wave3_correct_dwi_data.py                             *)
(***************************************************************************)
W3_Multi_NVols == 56
W3_Multi_AltNVols == 54
W3_Single_NVols == 53

\* A gradient table of `nrows` rows and `ncols` columns whose entry in row r
\* and column c is tag + 100 * r + c, so that every entry is told apart.
MkRows(tag, nrows, ncols) ==
    [r \in 1..nrows |-> [c \in 1..ncols |-> tag + 100 * r + c]]

\* The template tables kept beside the script (vetsa_ucsd_multiband-dwi_
\* bvals.txt, ..._bvecs.txt), taken to hold one column per frame of the
\* 56-frame protocol.
bvals_file_src == Txt(MkRows(5000, 1, W3_Multi_NVols))
bvecs_file_src == Txt(MkRows(6000, 3, W3_Multi_NVols))

\* The three sidecar renames shared by the wave 3 and v3 functions.
move_sidecars(st, acq) ==
    LET s1 == move(st, dwi_path(acq, "", ".json"), dwi_path(acq, "PA", ".json"))
        s2 == Bind(s1, LAMBDA s:
                move(s, dwi_path(acq, "", ".bval"), dwi_path(acq, "PA", ".bval")))
    IN Bind(s2, LAMBDA s:
                move(s, dwi_path(acq, "", ".bvec"), dwi_path(acq, "PA", ".bvec")))

w3_process_multi_shell_data(st, vetsaid) ==
    LET PA(ext) == dwi_path("multi", "PA", ext)
        s0 == move(st, dwi_path("multi", "", ".nii.gz"), PA(".nii.gz"))
        c == Bind(s0, LAMBDA s: check_dwi_nvols(s, PA(".nii.gz")))
    IN  IF c.res # "run" THEN c
        ELSE IF ~check_dwi_nvols_ret(c, PA(".nii.gz"), W3_Multi_NVols, W3_Multi_AltNVols)
             THEN return_none(print(c, "Error: Incorrect number of volumes in dwi file"))
        ELSE
        LET s3 == move_sidecars(c, "multi")
            s4 == Bind(s3, LAMBDA s: makedirs(s, "fmap"))
            s5 == Bind(s4, LAMBDA s:
                    split_epis(s, PA(".nii.gz"), epi_path("multi", "PA", ".nii.gz"),
                               epi_path("multi", "AP", ".nii.gz")))
            s6 == Bind(s5, LAMBDA s: flip_ap_epi(s, epi_path("multi", "AP", ".nii.gz")))
            s7 == Bind(s6, LAMBDA s: create_epi_jsons(s, vetsaid, "multi", "bids::"))
            s8 == Bind(s7, LAMBDA s: save(s, PA(".bval"), bvals_file_src))
            s9 == Bind(s8, LAMBDA s: save(s, PA(".bvec"), bvecs_file_src))
            s10 == Bind(s9, LAMBDA s: remove_first_n_values(s, PA(".bval"), 1))
            s11 == Bind(s10, LAMBDA s: remove_first_n_values(s, PA(".bvec"), 1))
            s12 == Bind(s11, LAMBDA s: create_epi_jsons(s, vetsaid, "multi", "bids::"))
        IN Bind(s12, return_none)

w3_process_single_shell_data(st, vetsaid) ==
    LET PA(ext) == dwi_path("single", "PA", ext)
        s0 == move(st, dwi_path("single", "", ".nii.gz"), PA(".nii.gz"))
        c == Bind(s0, LAMBDA s: check_dwi_nvols(s, PA(".nii.gz")))
    IN  IF c.res # "run" THEN c
        ELSE IF ~check_dwi_nvols_ret(c, PA(".nii.gz"), W3_Single_NVols, NoAlt)
             THEN return_none(print(c, "Error: Incorrect number of volumes in dwi file"))
        ELSE
        LET s3 == move_sidecars(c, "single")
            s4 == Bind(s3, LAMBDA s: makedirs(s, "fmap"))
            s5 == Bind(s4, LAMBDA s:
                    split_epis(s, PA(".nii.gz"), epi_path("single", "PA", ".nii.gz"),
                               epi_path("single", "AP", ".nii.gz")))
            s6 == Bind(s5, LAMBDA s: flip_ap_epi(s, epi_path("single", "AP", ".nii.gz")))
            s7 == Bind(s6, LAMBDA s: remove_first_n_values(s, PA(".bval"), 1))
            s8 == Bind(s7, LAMBDA s: remove_first_n_values(s, PA(".bvec"), 1))
            s9 == Bind(s8, LAMBDA s: create_epi_jsons(s, vetsaid, "single", "bids::"))
        IN Bind(s9, return_none)

\* A call whose returned value main does not look at: main goes on after it
\* unless it raised.
then_continue(st) == IF st.res \in {"none", "ok"} THEN [st EXCEPT !.res = "run"] ELSE st

\* The body of main's loop in bids_conversion/3_wave3_correct_dwi_data.py.
w3_main_body(st, vetsaid) ==
    IF ~isdir(st, "dwi") THEN return_none(check_dwi_folder(st))
    ELSE
    LET s1 == IF isfile(st, dwi_path("multi", "", ".nii.gz"))
              THEN then_continue(w3_process_multi_shell_data(st, vetsaid))
              ELSE print(st, "No multi-shell data found")
        s2 == Bind(s1, LAMBDA s:
                IF isfile(s, dwi_path("single", "", ".nii.gz"))
                THEN w3_process_single_shell_data(s, vetsaid)
                ELSE print(s, "No single-shell data found"))
    IN Bind(s2, return_none)

(***************************************************************************)
(* 3_correct_dwi_data_v3.py                                                *)
(***************************************************************************)
\* split_epis of 3_correct_dwi_data_v3.py: the dwi file is left as it is.
v3_split_epis(st, dwi_file, epi_pa_file, epi_ap_file) ==
    IF ~isfile(st, dwi_file) THEN raise(st)
    ELSE
    LET img == st.files[dwi_file]
        data == img.data
    IN  IF img.ndim # 4 \/ Len(data) < 1 THEN raise(st)
        ELSE
        LET s1 == save(st, epi_ap_file, Nifti1Image(3, <<data[1]>>, img.affine))
            s2 == Bind(s1, LAMBDA s:
                    IF Len(data) < 2 THEN raise(s)
                    ELSE save(s, epi_pa_file, Nifti1Image(3, <<data[2]>>, img.affine)))
        IN Bind(s2, LAMBDA s: ran(s, "split_epis"))

\* The subject's tables on the network share, found by glob(...)[0].
nas_path(ext) == Path("nas", "multi", "", "", "MB-DTI", ext)

\* Renames, split, flip and sidecars common to the two v3 functions; no
\* frame count is looked at.
v3_rename_and_split(st, vetsaid, acq) ==
    LET PA(ext) == dwi_path(acq, "PA", ext)
        s0 == move(st, dwi_path(acq, "", ".nii.gz"), PA(".nii.gz"))
        s3 == Bind(s0, LAMBDA s: move_sidecars(s, acq))
        s4 == Bind(s3, LAMBDA s: makedirs(s, "fmap"))
        s5 == Bind(s4, LAMBDA s:
                v3_split_epis(s, PA(".nii.gz"), epi_path(acq, "PA", ".nii.gz"),
                              epi_path(acq, "AP", ".nii.gz")))
        s6 == Bind(s5, LAMBDA s: flip_ap_epi(s, epi_path(acq, "AP", ".nii.gz")))
    IN Bind(s6, LAMBDA s: create_epi_jsons(s, vetsaid, acq, ""))

v3_process_multi_shell_data(st, vetsaid) ==
    LET s7 == v3_rename_and_split(st, vetsaid, "multi")
        s8 == Bind(s7, LAMBDA s:
                IF ~isfile(s, nas_path(".bval")) \/ ~isfile(s, nas_path(".bvec"))
                THEN raise(s) ELSE s)
        s9 == Bind(s8, LAMBDA s:
                save(s, dwi_path("multi", "PA", ".bval"), s.files[nas_path(".bval")]))
        s10 == Bind(s9, LAMBDA s:
                save(s, dwi_path("multi", "PA", ".bvec"), s.files[nas_path(".bvec")]))
    IN Bind(s10, return_none)

v3_process_single_shell_data(st, vetsaid) ==
    Bind(v3_rename_and_split(st, vetsaid, "single"), return_none)

\* The body of main's loop in 3_correct_dwi_data_v3.py.
v3_main_body(st, vetsaid) ==
    IF ~isdir(st, "dwi") THEN return_none(check_dwi_folder(st))
    ELSE
    LET s1 == IF isfile(st, dwi_path("multi", "", ".nii.gz"))
              THEN then_continue(v3_process_multi_shell_data(st, vetsaid))
              ELSE print(st, "No multi-shell data found")
        s2 == Bind(s1, LAMBDA s:
                IF isfile(s, dwi_path("single", "", ".nii.gz"))
                THEN v3_process_single_shell_data(s, vetsaid)
                ELSE print(s, "No single-shell data found"))
    IN Bind(s2, return_none)

(***************************************************************************)
(* 2_delete_excluded_runs.py.  A file sub-<id>_<session>_[run-NN_]<rest>   *)
(* <ext> under sub-<id>/<session>/<data_type> is the record of its parts;  *)
(* run is 0 when the name has no run-NN_ token, and rest is the sequence   *)
(* of the name's remaining parts.  A row of the csv file is the record of  *)
(* its columns, use_run being the run and the rest of the kept file.       *)
(***************************************************************************)
RunFile(session, data_type, run, rest, ext) ==
    [session |-> session, data_type |-> data_type, run |-> run, rest |-> rest,
     ext |-> ext]

Row(SubjectID, session, data_type, run, rest) ==
    [SubjectID |-> SubjectID, session |-> session, data_type |-> data_type,
     use_run |-> [run |-> run, rest |-> rest]]

\* file.startswith(base_filename) for a file of the row's directory
startswith(file, row) ==
    /\ file.run = row.use_run.run
    /\ Len(row.use_run.rest) <= Len(file.rest)
    /\ SubSeq(file.rest, 1, Len(row.use_run.rest)) = row.use_run.rest

\* Faulty variant: the token is left in the name.
re_sub_run_kept(file) == file

\* re.sub(r"run-[0-9][0-9]_", "", file)
re_sub_run(file) == [file EXCEPT !.run = 0]

\* rename_files: os.listdir of the row's directory, then os.rename of every
\* file that starts with the row's base name; os.rename replaces a file that
\* has the new name.
rename_files(st, row) ==
    IF <<row.session, row.data_type>> \notin st.dirs THEN raise(st)
    ELSE
    LET files == {f \in DOMAIN st.files :
                    /\ f.session = row.session /\ f.data_type = row.data_type
                    /\ startswith(f, row)}
        new == {re_sub_run(f) : f \in files}
        old_of(n) == CHOOSE f \in files : re_sub_run(f) = n
        kept == (DOMAIN st.files \ files) \ new
    IN  ran([st EXCEPT !.files =
                 [q \in kept \cup new |->
                    IF q \in new THEN st.files[old_of(q)] ELSE st.files[q]]],
            "rename_files")

\* Faulty variant: only the first run is recognised.
re_search_run_first(file) == file.run = 1

\* re.search(r"run-[0-9][0-9]_", filename)
re_search_run(file) == file.run # 0

\* delete_files: os.walk of sub-<subject>/<session>, os.remove of every file
\* whose name holds a run token.
delete_files(st, session) ==
    LET deleted_files == {f \in DOMAIN st.files :
                            f.session = session /\ re_search_run(f)}
        s1 == [st EXCEPT !.files = [q \in DOMAIN st.files \ deleted_files |-> st.files[q]]]
        s2 == IF deleted_files = {} THEN s1 ELSE print(s1, "Deleting")
    IN ran(s2, "delete_files")

\* df[["SubjectID", "session"]].drop_duplicates().values
RECURSIVE drop_duplicates(_)
drop_duplicates(rows) ==
    IF rows = <<>> THEN <<>>
    ELSE LET front == drop_duplicates(SubSeq(rows, 1, Len(rows) - 1))
             pair == <<rows[Len(rows)].SubjectID, rows[Len(rows)].session>>
         IN  IF \E k \in 1..Len(front) : front[k] = pair THEN front
             ELSE Append(front, pair)

(***************************************************************************)
(* 5_recode_to_cid.py.  A string is the sequence of its parts: an id is    *)
(* written character by character, and text in which no id can occur is    *)
(* one part.  The dataset is the set of its directories with the map from  *)
(* the paths of its files to their contents, the paths being strings       *)
(* relative to bids_dir; the values of a JSON file are strings.            *)
(***************************************************************************)
\* `old in s`
contains(s, old) ==
    \E i \in 1..(Len(s) - Len(old) + 1) : SubSeq(s, i, i + Len(old) - 1) = old

\* s.replace(old, new): every occurrence, left to right, without overlap
RECURSIVE replace(_, _, _)
replace(s, old, new) ==
    IF Len(s) < Len(old) \/ old = <<>> THEN s
    ELSE IF SubSeq(s, 1, Len(old)) = old
         THEN new \o replace(SubSeq(s, Len(old) + 1, Len(s)), old, new)
         ELSE <<s[1]>> \o replace(Tail(s), old, new)

\* The index of the last separator of a path, 0 when it has none.
last_sep(p) ==
    CHOOSE i \in 0..Len(p) :
        /\ (i = 0 \/ p[i] = "/")
        /\ \A j \in (i + 1)..Len(p) : p[j] # "/"

\* os.path.dirname and os.path.basename
dirname(p) == SubSeq(p, 1, last_sep(p) - 1)
basename(p) == SubSeq(p, last_sep(p) + 1, Len(p))

\* The path p lies under the directory d.
under(p, d) ==
    /\ Len(p) > Len(d) + 1
    /\ SubSeq(p, 1, Len(d)) = d
    /\ p[Len(d) + 1] = "/"

\* The name 'sub-' + id
sub_folder(id) == <<"sub-">> \o id

\* subject.split('-')[1], for a name with a hyphen: the text after 'sub-'
split_1(subject) ==
    LET i == CHOOSE j \in 1..Len(subject) :
                /\ subject[j] = "sub-"
                /\ \A h \in 1..(j - 1) : subject[h] # "sub-"
    IN  SubSeq(subject, i + 1, Len(subject))

\* dict(zip(key['VETSAID'], key['CID'])): a later row replaces an earlier
\* one with the same VETSAID.
get_vetsaid_to_cid(key) ==
    [v \in {key[k].VETSAID : k \in 1..Len(key)} |->
        key[CHOOSE k \in 1..Len(key) :
                /\ key[k].VETSAID = v
                /\ \A j \in (k + 1)..Len(key) : key[j].VETSAID # v].CID]

\* os.rename(src, dst) inside the dataset: a directory moves with all that
\* lies under it and may replace an empty directory only; a file replaces a
\* file of the new name; the directory of dst must exist.
os_rename(st, src, dst) ==
    LET parent_exists == dirname(dst) = <<>> \/ dirname(dst) \in st.dirs
        moved(p) == dst \o SubSeq(p, Len(src) + 1, Len(p))
    IN  IF src \in st.dirs
        THEN IF ~parent_exists \/ dst \in DOMAIN st.files THEN raise(st)
             ELSE IF src = dst THEN st
             ELSE IF dst \in st.dirs
                     /\ \E p \in st.dirs \cup DOMAIN st.files : under(p, dst)
             THEN raise(st)
             ELSE
             LET inside == {p \in DOMAIN st.files : under(p, src)}
                 dirs_inside == {d \in st.dirs : under(d, src)}
                 files == [q \in (DOMAIN st.files \ inside) \cup {moved(p) : p \in inside} |->
                             IF \E p \in inside : moved(p) = q
                             THEN st.files[CHOOSE p \in inside : moved(p) = q]
                             ELSE st.files[q]]
             IN  [st EXCEPT !.dirs = ((@ \ dirs_inside) \ {src})
                                     \cup {dst} \cup {moved(d) : d \in dirs_inside},
                            !.files = files]
        ELSE IF src \in DOMAIN st.files
        THEN IF ~parent_exists \/ dst \in st.dirs THEN raise(st)
             ELSE [st EXCEPT !.files =
                      [q \in (DOMAIN st.files \ {src}) \cup {dst} |->
                          IF q = dst THEN st.files[src] ELSE st.files[q]]]
        ELSE raise(st)

\* The file opened 'r+': its content with every vetsaid replaced by the cid.
replace_content(st, new_file_name, vetsaid, cid) ==
    IF new_file_name \notin DOMAIN st.files THEN raise(st)
    ELSE LET c == st.files[new_file_name]
         IN  IF c.kind # "json" THEN st
             ELSE [st EXCEPT !.files[new_file_name] =
                      Json([k \in DOMAIN c.d |-> replace(c.d[k], vetsaid, cid)])]

\* `for subject_file in subject_files`, in the order of the walk.
RECURSIVE recode_files(_, _, _, _)
recode_files(st, subject_files, vetsaid, cid) ==
    IF subject_files = {} \/ st.res # "run" THEN st
    ELSE
    LET subject_file == CHOOSE p \in subject_files : TRUE
        \* the path is replaced as a whole, the text of bids_dir included
        full == <<bids_dir, "/">> \o subject_file
        new_file_name == SubSeq(replace(full, vetsaid, cid), 3,
                                Len(replace(full, vetsaid, cid)))
        s1 == os_rename(st, subject_file, new_file_name)
        s2 == Bind(s1, LAMBDA s:
                IF new_file_name[Len(new_file_name)] = ".json"
                THEN replace_content(s, new_file_name, vetsaid, cid)
                ELSE s)
    IN recode_files(s2, subject_files \ {subject_file}, vetsaid, cid)

\* Faulty variant: an id that is not in the key file is looked up all the
\* same.
not_in_id_mapper_ignored(vetsaid, id_mapper) == FALSE

\* if vetsaid not in id_mapper
not_in_id_mapper(vetsaid, id_mapper) == vetsaid \notin DOMAIN id_mapper

\* The body of main's loop in 5_recode_to_cid.py.
recode_main_body(st, subject, key) ==
    LET id_mapper == get_vetsaid_to_cid(key)
    IN  IF \A j \in 1..Len(subject) : subject[j] # "sub-" THEN raise(st)
        ELSE
        LET vetsaid == split_1(subject)
        IN  IF not_in_id_mapper(vetsaid, id_mapper)
            THEN return_none(print(st, "not in key file. Skipping..."))
            \* id_mapper[vetsaid] of an id that is not a key: KeyError
            ELSE IF vetsaid \notin DOMAIN id_mapper THEN raise(st)
            ELSE
            LET cid == id_mapper[vetsaid]
                s0 == print(st, "Recoding")
                s1 == Bind(os_rename(s0, subject, sub_folder(cid)),
                           LAMBDA s: ran(s, "os.rename"))
                s2 == Bind(s1, LAMBDA s:
                        recode_files(s,
                            {p \in DOMAIN s.files :
                                under(p, sub_folder(cid)) /\ contains(basename(p), vetsaid)},
                            vetsaid, cid))
            IN Bind(s2, return_value)

(***************************************************************************)
(* The function-level harness: split_func_run on a small volume of any     *)
(* content, then (optionally) the external correction of each split file,  *)
(* then merge_func_files.                                                  *)
(***************************************************************************)
Frames == [1..YDim -> Voxels]
UnitVolumes == UNION {[1..n -> Frames] : n \in 2..MaxFrames}

NoSubject == [dirs |-> {}, files |-> NoFiles]
Start(folder) == [dirs |-> folder.dirs, files |-> folder.files,
                  res |-> "run", steps |-> <<>>, out |-> <<>>]
FolderOf(st) == [dirs |-> st.dirs, files |-> st.files]
NoCall == [sub |-> "", op |-> "", res |-> "", steps |-> <<>>, out |-> <<>>,
           args |-> <<>>]
Call(sub, op, st, args) ==
    [sub |-> sub, op |-> op, res |-> st.res, steps |-> st.steps, out |-> st.out,
     args |-> args]

UnitInit ==
    /\ script = "unit"
    /\ argv = <<>>
    /\ bids_dir = "/data/bids"
    /\ df = <<>>
    /\ subject_list = <<"s1">>
    /\ idx = 1
    /\ pc = "start"
    /\ \E v \in UnitVolumes :
          disk = [s \in Subjects |->
                    IF s = "s1"
                    THEN [dirs |-> {"func"},
                          files |-> Put(NoFiles, bold_file, Nii(4, v, "affine"))]
                    ELSE NoSubject]
    /\ disk0 = disk
    /\ pre = disk
    /\ last = NoCall
    /\ successful_subjects = <<>>
    /\ unsuccessful_subjects = <<>>

UnitFrame == UNCHANGED <<script, argv, bids_dir, subject_list, df, idx, disk0,
                         successful_subjects, unsuccessful_subjects>>

Unit_split_func_run ==
    /\ script = "unit" /\ pc = "start"
    /\ LET st == split_func_run(Start(disk["s1"]), bold_file)
       IN /\ disk' = [disk EXCEPT !["s1"] = FolderOf(st)]
          /\ last' = Call("s1", "split_func_run", st, <<bold_file>>)
          /\ pc' = IF st.res = "run" THEN "split" ELSE "failed"
    /\ pre' = disk
    /\ UnitFrame

Unit_apply_topup ==
    /\ script = "unit" /\ pc = "split"
    /\ LET ap == WithDir(bold_file, "AP")
           pa == WithDir(bold_file, "PA")
       IN \E oa \in TopupOutputs(disk["s1"].files[ap].data),
             ob \in TopupOutputs(disk["s1"].files[pa].data) :
            LET s1 == apply_topup(Start(disk["s1"]), ap, oa)
                st == Bind(s1, LAMBDA s: apply_topup(s, pa, ob))
            IN /\ disk' = [disk EXCEPT !["s1"] = FolderOf(st)]
               /\ last' = Call("s1", "apply_topup", st, <<ap, pa>>)
               /\ pc' = IF st.res = "run" THEN "topup" ELSE "failed"
    /\ pre' = disk
    /\ UnitFrame

Unit_merge_func_files ==
    /\ script = "unit" /\ pc \in {"split", "topup"}
    /\ LET desc == IF pc = "topup" THEN "topup" ELSE ""
           ap == [WithDir(bold_file, "AP") EXCEPT !.desc = desc]
           pa == [WithDir(bold_file, "PA") EXCEPT !.desc = desc]
           st == merge_func_files(Start(disk["s1"]), ap, pa)
       IN /\ disk' = [disk EXCEPT !["s1"] = FolderOf(st)]
          /\ last' = Call("s1", "merge_func_files", st, <<ap, pa>>)
          /\ pc' = IF st.res = "run" THEN "merged" ELSE "merge_failed"
    /\ pre' = disk
    /\ UnitFrame

UnitNext == Unit_split_func_run \/ Unit_apply_topup \/ Unit_merge_func_files

SpecUnit == UnitInit /\ [][UnitNext]_vars

(***************************************************************************)
(* The function-level harness for the sidecar functions of                 *)
(* 4_wave2_prep-fmri.py: create_split_func_json and add_intended on a      *)
(* folder whose bold sidecar is any small dict and whose AP fieldmap       *)
(* sidecar is absent or any small dict.                                    *)
(***************************************************************************)
\* The dicts over three keys.
Dicts ==
    {a @@ b @@ c :
        a \in {NoFiles, Key("PhaseEncodingDirection", "j-"),
               Key("PhaseEncodingDirection", "j")},
        b \in {NoFiles, Key("RepetitionTime", 2)},
        c \in {NoFiles, Key("IntendedFor", "earlier")}}

JsonInit ==
    /\ script = "sidecars"
    /\ argv = <<>>
    /\ bids_dir \in BidsDirs
    /\ df = <<>>
    /\ subject_list = <<"s1">>
    /\ idx = 1
    /\ pc = "start"
    /\ \E bold \in Dicts, fmap \in {NoFiles} \cup {Key(fmap_func_json("AP"), Json(d)) : d \in Dicts} :
          disk = [s \in Subjects |->
                    IF s = "s1"
                    THEN [dirs |-> {"func", "fmap"},
                          files |-> (WithExt(bold_file, ".json") :> Json(bold)) @@ fmap]
                    ELSE NoSubject]
    /\ disk0 = disk
    /\ pre = disk
    /\ last = NoCall
    /\ successful_subjects = <<>>
    /\ unsuccessful_subjects = <<>>

Json_create_split_func_json ==
    /\ script = "sidecars" /\ pc = "start"
    /\ LET st == create_split_func_json(Start(disk["s1"]), WithDir(bold_file, "AP"),
                                        WithDir(bold_file, "PA"),
                                        WithExt(bold_file, ".json"))
       IN /\ disk' = [disk EXCEPT !["s1"] = FolderOf(st)]
          /\ last' = Call("s1", "create_split_func_json", st, <<>>)
          /\ pc' = IF st.res = "run" THEN "sidecars written" ELSE "failed"
    /\ pre' = disk
    /\ UnitFrame

Json_add_intended ==
    /\ script = "sidecars" /\ pc = "start"
    /\ LET intended_for == replace_bids_dir("s1", WithDir(bold_file, "AP"))
           st == add_intended(Start(disk["s1"]), fmap_func_json("AP"), intended_for)
       IN /\ disk' = [disk EXCEPT !["s1"] = FolderOf(st)]
          /\ last' = Call("s1", "add_intended", st, <<intended_for>>)
          /\ pc' = IF st.res = "run" THEN "intended" ELSE "failed"
    /\ pre' = disk
    /\ UnitFrame

JsonNext == Json_create_split_func_json \/ Json_add_intended

SpecJson == JsonInit /\ [][JsonNext]_vars

(***************************************************************************)
(* The function-level harness for split_epis and flip_ap_epi of the wave 2 *)
(* and wave 3 diffusion scripts: split_epis on a diffusion image of any    *)
(* small content, then flip_ap_epi on the AP epi file, once and again.     *)
(***************************************************************************)
epi_pa_file == epi_path("single", "PA", ".nii.gz")
epi_ap_file == epi_path("single", "AP", ".nii.gz")
dwi_file == dwi_path("single", "PA", ".nii.gz")

DwiInit ==
    /\ script = "epis"
    /\ argv = <<>>
    /\ bids_dir = "/data/bids"
    /\ df = <<>>
    /\ subject_list = <<"s1">>
    /\ idx = 1
    /\ pc = "start"
    /\ \E v \in UnitVolumes :
          disk = [s \in Subjects |->
                    IF s = "s1"
                    THEN [dirs |-> {"dwi", "fmap"},
                          files |-> Put(NoFiles, dwi_file, Nii(4, v, <<"affine", "s1">>))]
                    ELSE NoSubject]
    /\ disk0 = disk
    /\ pre = disk
    /\ last = NoCall
    /\ successful_subjects = <<>>
    /\ unsuccessful_subjects = <<>>

Dwi_split_epis ==
    /\ script = "epis" /\ pc = "start"
    /\ LET st == split_epis(Start(disk["s1"]), dwi_file, epi_pa_file, epi_ap_file)
       IN /\ disk' = [disk EXCEPT !["s1"] = FolderOf(st)]
          /\ last' = Call("s1", "split_epis", st, <<dwi_file>>)
          /\ pc' = IF st.res = "run" THEN "split" ELSE "failed"
    /\ pre' = disk
    /\ UnitFrame

Dwi_flip_ap_epi ==
    /\ script = "epis" /\ pc \in {"split", "flipped"}
    /\ LET st == flip_ap_epi(Start(disk["s1"]), epi_ap_file)
       IN /\ disk' = [disk EXCEPT !["s1"] = FolderOf(st)]
          /\ last' = Call("s1", "flip_ap_epi", st, <<epi_ap_file>>)
          /\ pc' = CASE st.res # "run" -> "failed"
                      [] pc = "split" -> "flipped"
                      [] OTHER -> "flipped twice"
    /\ pre' = disk
    /\ UnitFrame

DwiNext == Dwi_split_epis \/ Dwi_flip_ap_epi

SpecDwi == DwiInit /\ [][DwiNext]_vars

(***************************************************************************)
(* The scripts run by main over a subject list.  Each subject's folder     *)
(* starts as one of the layouts the conversion step can leave behind.      *)
(***************************************************************************)
Scripts == {"4_wave2_prep-fmri.py", "4_wave2_fmri-ucsd-split-ape.py",
            "4_wave2_fmri-sdc-ucsd.py",
            "3_wave1_correct_dwi_data.py", "3_wave2_correct_dwi_data.py",
            "3_wave3_correct_dwi_data.py", "3_correct_dwi_data_v3.py",
            "2_delete_excluded_runs.py"}

SubjectLists == UNION {[1..n -> Subjects] : n \in 0..MaxSubjects}

Tag(s) == IF s = "s1" THEN 10000 ELSE 20000
Affine(s) == <<"affine", s>>

\* A volume of n frames, each different from every other and from its own
\* mirror along y.
MkVol(tag, n) == [i \in 1..n |-> [y \in 1..YDim |-> IF y = 1 THEN tag + i ELSE 0]]

Folder(dirs, files) == [dirs |-> dirs, files |-> files]

FuncFolders(s) ==
    LET img(n) == bold_file :> Nii(4, MkVol(Tag(s), n), Affine(s))
        js(model, ped) ==
            WithExt(bold_file, ".json") :>
                Json(Key("ManufacturersModelName", model) @@ Key("RepetitionTime", 2)
                     @@ (IF ped THEN Key("PhaseEncodingDirection", "j-") ELSE NoFiles))
        fm == (fmap_func_json("AP") :> Json(Key("PhaseEncodingDirection", "j-")))
              @@ (fmap_func_json("PA") :> Json(Key("PhaseEncodingDirection", "j-")))
        both == {"func", "fmap"}
        ucsd == "DISCOVERY MR750"
    IN  { Folder({"fmap"}, NoFiles),
          Folder({"func"}, img(ExpectedFuncVols) @@ js(ucsd, TRUE)),
          Folder(both, img(ExpectedFuncVols) @@ js(ucsd, TRUE)),
          Folder(both, img(ExpectedFuncVols) @@ js(ucsd, TRUE) @@ fm),
          Folder(both, img(ExpectedFuncVols - 2) @@ js(ucsd, TRUE)),
          Folder(both, img(ExpectedFuncVols) @@ js(ucsd, FALSE)),
          Folder(both, img(ExpectedFuncVols) @@ js("TrioTim", TRUE)),
          Folder(both, img(ExpectedFuncVols) @@ js("TrioTim", TRUE) @@ fm),
          Folder(both, img(ExpectedFuncVols) @@ js("Prisma", TRUE)),
          Folder(both, img(ExpectedFuncVols)),
          Folder(both, js(ucsd, TRUE)) }

\* Layouts for 4_wave2_fmri-sdc-ucsd.py, which also reads the two fieldmap
\* images and the readout time of the AP fieldmap.
SdcFolders(s) ==
    LET img(n) == bold_file :> Nii(4, MkVol(Tag(s), n), Affine(s))
        js(model) ==
            WithExt(bold_file, ".json") :>
                Json(Key("ManufacturersModelName", model) @@ Key("RepetitionTime", 2)
                     @@ Key("PhaseEncodingDirection", "j-"))
        fm(trt) ==
            (fmap_func_file("AP") :> Nii(4, MkVol(Tag(s) + 3000, 1), <<"fmap", s>>))
            @@ (fmap_func_file("PA") :> Nii(4, MkVol(Tag(s) + 4000, 1), <<"fmap", s>>))
            @@ (fmap_func_json("AP") :>
                  Json(Key("PhaseEncodingDirection", "j-")
                       @@ (IF trt THEN Key("TotalReadoutTime", 50) ELSE NoFiles)))
        both == {"func", "fmap"}
        ucsd == "DISCOVERY MR750"
    IN  { Folder({"func"}, img(ExpectedFuncVols) @@ js(ucsd)),
          Folder(both, img(ExpectedFuncVols) @@ js(ucsd) @@ fm(TRUE)),
          Folder(both, img(ExpectedFuncVols) @@ js(ucsd) @@ fm(FALSE)),
          Folder(both, img(ExpectedFuncVols) @@ js(ucsd)),
          Folder(both, img(ExpectedFuncVols - 2) @@ js(ucsd) @@ fm(TRUE)),
          Folder(both, img(ExpectedFuncVols) @@ js("TrioTim") @@ fm(TRUE)),
          Folder(both, img(ExpectedFuncVols) @@ js("Prisma") @@ fm(TRUE)),
          Folder(both, img(ExpectedFuncVols) @@ fm(TRUE)) }

\* The files of one diffusion acquisition of n frames, named with `acq` and
\* `pe`: image, bval and bvec, and the sidecar unless model is "".
DwiFiles(s, acq, pe, n, model) ==
    LET t == Tag(s) + (IF acq = "multi" THEN 5000 ELSE 0)
    IN  (dwi_path(acq, pe, ".nii.gz") :> Nii(4, MkVol(t, n), <<acq, s>>))
        @@ (dwi_path(acq, pe, ".bval") :> Txt(MkRows(t, 1, n)))
        @@ (dwi_path(acq, pe, ".bvec") :> Txt(MkRows(t, 3, n)))
        @@ (IF model = "" THEN NoFiles
            ELSE dwi_path(acq, pe, ".json") :>
                   Json(Key("ManufacturersModelName", model)
                        @@ Key("PhaseEncodingDirection", "j-")
                        @@ Key("TotalReadoutTime", 50)
                        @@ Key("SliceTiming", <<0, 10, 20>>)))

W1Folders(s) ==
    LET D(n, model) == DwiFiles(s, "", "AP", n, model)
        \* a sidecar without phase-encoding direction and readout time
        bare == dwi_path("", "AP", ".json") :>
                  Json(Key("ManufacturersModelName", "Avanto")
                       @@ Key("SliceTiming", <<0, 10, 20>>))
    IN  { Folder({}, NoFiles),
          Folder({"dwi"}, bare @@ D(W1_NVols, "")),
          Folder({"dwi"}, NoFiles),
          Folder({"dwi"}, D(W1_NVols, "Avanto")),
          Folder({"dwi", "fmap"}, D(W1_NVols, "Symphony")),
          Folder({"dwi"}, D(W1_NVols - 2, "Avanto")),
          Folder({"dwi"}, D(W1_NVols, "")),
          Folder({"dwi"}, D(W1_NVols, "Prisma")),
          Folder({"dwi"}, Del(D(W1_NVols, "Avanto"), dwi_path("", "AP", ".bval"))) }

W2Folders(s) ==
    LET D(n, model) == DwiFiles(s, "single", "AP", n, model)
        epi == epi_path("single", "PA", ".json") :>
                 Json(Key("PhaseEncodingDirection", "j"))
    IN  { Folder({}, NoFiles),
          Folder({"dwi"}, NoFiles),
          Folder({"dwi", "fmap"}, D(BU_NVols, "TrioTim") @@ epi),
          Folder({"dwi", "fmap"}, D(BU_NVols, "TrioTim")),
          Folder({"dwi", "fmap"}, D(BU_NVols - 2, "TrioTim") @@ epi),
          Folder({"dwi"}, D(UCSD_Single_NVols, "DISCOVERY MR750")),
          Folder({"dwi"}, D(UCSD_Single_NVols - 2, "DISCOVERY MR750")),
          Folder({"dwi"}, D(UCSD_Single_NVols, "")),
          Folder({"dwi"}, D(UCSD_Single_NVols, "Prisma")),
          Folder({"dwi"}, Del(D(UCSD_Single_NVols, "DISCOVERY MR750"),
                              dwi_path("single", "AP", ".bval"))) }

\* Wave 3 layouts; `nas` says whether the subject's tables are on the share
\* that 3_correct_dwi_data_v3.py copies them from.
W3Folders(s, nas) ==
    LET M(n, model) == DwiFiles(s, "multi", "", n, model)
        S(n, model) == DwiFiles(s, "single", "", n, model)
        ucsd == "DISCOVERY MR750"
        tables == IF nas
                  THEN (nas_path(".bval") :> Txt(MkRows(7000, 1, W3_Multi_NVols)))
                       @@ (nas_path(".bvec") :> Txt(MkRows(8000, 3, W3_Multi_NVols)))
                  ELSE NoFiles
        dirs == IF nas THEN {"dwi", "nas"} ELSE {"dwi"}
    IN  { Folder({}, NoFiles),
          Folder(dirs, tables),
          Folder(dirs, tables @@ M(W3_Multi_NVols, ucsd) @@ S(W3_Single_NVols, ucsd)),
          Folder(dirs, tables @@ M(W3_Multi_AltNVols, ucsd)),
          Folder(dirs, tables @@ M(W3_Multi_NVols - 16, ucsd) @@ S(W3_Single_NVols, ucsd)),
          Folder(dirs, tables @@ M(W3_Multi_NVols, "") @@ S(W3_Single_NVols, ucsd)),
          Folder(dirs, tables @@ S(W3_Single_NVols, ucsd)),
          Folder(dirs, tables @@ S(W3_Single_NVols - 3, ucsd)) }

\* Layouts for 2_delete_excluded_runs.py: two sessions with runs of an
\* anatomical image, some with a file that already has the name without the
\* run token.
Sessions == {"ses-01", "ses-02"}

DelFolders(s) ==
    LET F(session, run, rest, ext) ==
            LET f == RunFile(session, "anat", run, rest, ext)
            IN f :> [kind |-> "file", id |-> <<s, f>>]
        anat(sessions) == {<<x, "anat">> : x \in sessions}
    IN  { Folder({}, NoFiles),
          Folder(anat(Sessions),
                 F("ses-01", 1, <<"T1w">>, ".nii.gz") @@ F("ses-01", 1, <<"T1w">>, ".json")
                 @@ F("ses-01", 2, <<"T1w">>, ".nii.gz") @@ F("ses-01", 2, <<"T1w">>, ".json")
                 @@ F("ses-02", 1, <<"T1w">>, ".nii.gz")),
          Folder(anat({"ses-01"}),
                 F("ses-01", 0, <<"T1w">>, ".nii.gz") @@ F("ses-01", 1, <<"T1w">>, ".nii.gz")),
          Folder(anat(Sessions),
                 F("ses-01", 1, <<"T1w">>, ".nii.gz")
                 @@ F("ses-01", 1, <<"T1w", "defaced">>, ".nii.gz")
                 @@ F("ses-02", 2, <<"T1w">>, ".nii.gz")
                 @@ F("ses-02", 0, <<"T2w">>, ".nii.gz")) }

\* The rows a csv file may hold, and the csv files.
Rows == {Row(x, session, "anat", run, <<"T1w">>) :
            x \in Subjects, session \in Sessions, run \in 1..2}

RowLists == UNION {[1..n -> Rows] : n \in 1..MaxRows}

Folders(scr, s) ==
    CASE scr \in {"4_wave2_prep-fmri.py", "4_wave2_fmri-ucsd-split-ape.py"} -> FuncFolders(s)
      [] scr = "4_wave2_fmri-sdc-ucsd.py" -> SdcFolders(s)
      [] scr = "3_wave1_correct_dwi_data.py" -> W1Folders(s)
      [] scr = "3_wave2_correct_dwi_data.py" -> W2Folders(s)
      [] scr = "3_wave3_correct_dwi_data.py" -> W3Folders(s, TRUE)
      [] scr = "2_delete_excluded_runs.py" -> DelFolders(s)
      [] OTHER -> W3Folders(s, TRUE) \cup W3Folders(s, FALSE)

Init ==
    /\ script \in Scripts
    /\ argv = <<>>
    /\ bids_dir \in BidsDirs
    /\ IF script = "2_delete_excluded_runs.py"
       THEN df \in RowLists /\ subject_list = <<>> /\ pc = "rename"
       ELSE df = <<>> /\ subject_list \in SubjectLists /\ pc = "loop"
    /\ idx = 1
    /\ \E a \in Folders(script, "s1"), b \in Folders(script, "s2") :
          disk = ("s1" :> a) @@ ("s2" :> b)
    /\ disk0 = disk
    /\ pre = disk
    /\ last = NoCall
    /\ successful_subjects = <<>>
    /\ unsuccessful_subjects = <<>>

\* Faulty variant: the directory is built from an id that does not change
\* with the loop variable.
subject_dir_fixed(vetsaid) == "s1"

\* os.path.join(bids_dir, f'sub-{vetsaid}'): the directory of the subject,
\* in which every path of an iteration lies.
subject_dir(vetsaid) == vetsaid

\* One iteration of `for vetsaid in subject_list` ended in st: the folder is
\* as the body left it; an uncaught exception or sys.exit ends the run.
Iterated(vetsaid, st) ==
    /\ disk' = [disk EXCEPT ![subject_dir(vetsaid)] = FolderOf(st)]
    /\ pre' = disk
    /\ last' = Call(vetsaid, "main", st, <<>>)
    /\ pc' = CASE st.res = "raise" -> "crashed"
               [] st.res = "exit" -> "exited"
               [] OTHER -> "loop"
    /\ idx' = idx + 1
    /\ UNCHANGED <<script, argv, bids_dir, subject_list, df, disk0>>

InLoop(scr) == script = scr /\ pc = "loop" /\ idx <= Len(subject_list)

\* Faulty variant: no result counts as None.
result_is_None_never(st) == FALSE

\* `if result is None`, and the failed folder check before it
result_is_None(st) == st.res = "none"

prep_main_iteration ==
    /\ InLoop("4_wave2_prep-fmri.py")
    /\ LET vetsaid == subject_list[idx]
           st == prep_main_body(Start(disk[subject_dir(vetsaid)]), vetsaid)
           returned == st.res \in {"ok", "none"}
       IN  /\ Iterated(vetsaid, st)
           /\ successful_subjects' =
                IF returned /\ ~result_is_None(st)
                THEN Append(successful_subjects, vetsaid)
                ELSE successful_subjects
           /\ unsuccessful_subjects' =
                IF returned /\ result_is_None(st)
                THEN Append(unsuccessful_subjects, vetsaid)
                ELSE unsuccessful_subjects

ape_main_iteration ==
    /\ InLoop("4_wave2_fmri-ucsd-split-ape.py")
    /\ LET vetsaid == subject_list[idx]
       IN Iterated(vetsaid, ape_main_body(Start(disk[subject_dir(vetsaid)]), vetsaid))
    /\ UNCHANGED <<successful_subjects, unsuccessful_subjects>>

sdc_main_iteration ==
    /\ InLoop("4_wave2_fmri-sdc-ucsd.py")
    /\ LET vetsaid == subject_list[idx]
       IN \E whole_AP \in BOOLEAN, whole_PA \in BOOLEAN :
            Iterated(vetsaid,
                     sdc_main_body(Start(disk[subject_dir(vetsaid)]), vetsaid, whole_AP, whole_PA))
    /\ UNCHANGED <<successful_subjects, unsuccessful_subjects>>

w1_main_iteration ==
    /\ InLoop("3_wave1_correct_dwi_data.py")
    /\ LET vetsaid == subject_list[idx]
       IN Iterated(vetsaid, w1_main_body(Start(disk[subject_dir(vetsaid)]), vetsaid))
    /\ UNCHANGED <<successful_subjects, unsuccessful_subjects>>

w2_main_iteration ==
    /\ InLoop("3_wave2_correct_dwi_data.py")
    /\ LET vetsaid == subject_list[idx]
       IN Iterated(vetsaid, w2_main_body(Start(disk[subject_dir(vetsaid)]), vetsaid))
    /\ UNCHANGED <<successful_subjects, unsuccessful_subjects>>

w3_main_iteration ==
    /\ InLoop("3_wave3_correct_dwi_data.py")
    /\ LET vetsaid == subject_list[idx]
       IN Iterated(vetsaid, w3_main_body(Start(disk[subject_dir(vetsaid)]), vetsaid))
    /\ UNCHANGED <<successful_subjects, unsuccessful_subjects>>

v3_main_iteration ==
    /\ InLoop("3_correct_dwi_data_v3.py")
    /\ LET vetsaid == subject_list[idx]
       IN Iterated(vetsaid, v3_main_body(Start(disk[subject_dir(vetsaid)]), vetsaid))
    /\ UNCHANGED <<successful_subjects, unsuccessful_subjects>>

\* main of 2_delete_excluded_runs.py: df.apply(rename_files, axis=1), one
\* row at a time.
del_rename_iteration ==
    /\ script = "2_delete_excluded_runs.py" /\ pc = "rename" /\ idx <= Len(df)
    /\ LET row == df[idx]
           st == rename_files(Start(disk[subject_dir(row.SubjectID)]), row)
       IN  /\ disk' = [disk EXCEPT ![subject_dir(row.SubjectID)] = FolderOf(st)]
           /\ last' = Call(row.SubjectID, "rename_files", st, <<row>>)
           /\ pc' = IF st.res = "raise" THEN "crashed" ELSE "rename"
    /\ pre' = disk
    /\ idx' = idx + 1
    /\ UNCHANGED <<script, argv, bids_dir, subject_list, df, disk0,
                   successful_subjects, unsuccessful_subjects>>

\* Every row is renamed: the loop over the distinct (SubjectID, session)
\* pairs starts; subject_list holds the pairs.
del_renames_done ==
    /\ script = "2_delete_excluded_runs.py" /\ pc = "rename" /\ idx > Len(df)
    /\ subject_list' = drop_duplicates(df)
    /\ idx' = 1
    /\ pc' = "loop"
    /\ UNCHANGED <<script, argv, bids_dir, df, disk, disk0, pre, last,
                   successful_subjects, unsuccessful_subjects>>

del_delete_iteration ==
    /\ InLoop("2_delete_excluded_runs.py")
    /\ LET subject == subject_list[idx][1]
           session == subject_list[idx][2]
           st == delete_files(Start(disk[subject_dir(subject)]), session)
       IN  /\ disk' = [disk EXCEPT ![subject_dir(subject)] = FolderOf(st)]
           /\ last' = Call(subject, "delete_files", st, <<session>>)
    /\ pre' = disk
    /\ idx' = idx + 1
    /\ UNCHANGED <<script, argv, bids_dir, subject_list, df, pc, disk0,
                   successful_subjects, unsuccessful_subjects>>

\* The loop is over and main returns (4_wave2_prep-fmri.py writes its two
\* lists first).
main_returns ==
    /\ pc = "loop"
    /\ script \in Scripts
    /\ idx > Len(subject_list)
    /\ pc' = "done"
    /\ UNCHANGED <<script, argv, bids_dir, subject_list, df, idx, disk, disk0, pre, last,
                   successful_subjects, unsuccessful_subjects>>

Next ==
    \/ prep_main_iteration
    \/ ape_main_iteration
    \/ sdc_main_iteration
    \/ w1_main_iteration
    \/ w2_main_iteration
    \/ w3_main_iteration
    \/ v3_main_iteration
    \/ del_rename_iteration
    \/ del_renames_done
    \/ del_delete_iteration
    \/ main_returns

Spec == Init /\ [][Next]_vars

(***************************************************************************)
(* 5_recode_to_cid.py run on a dataset: main(bids_dir, key_file,           *)
(* subjects_list).  df holds the rows of the key file, disk the dataset,   *)
(* pre the dataset before the last subject, last.args the folder renames   *)
(* made so far.  pc = "main" is the call without subjects_list (None),     *)
(* pc = "main -s" the call with the list in subject_list.                  *)
(***************************************************************************)
VETSAIDs == {<<"1", "1">>, <<"1", "2">>}
CIDs == {<<"2", "1">>, <<"2", "2">>}

\* The files of a subject as the conversion leaves them, every name with
\* the subject's id, and the IntendedFor of the sidecar naming it twice.
bids_files(id) ==
    LET func == sub_folder(id) \o <<"/", "ses-02", "/", "func">>
        name == <<"/", "sub-">> \o id \o <<"_ses-02_task-rest_bold">>
    IN  [p \in {func \o name \o <<".nii.gz">>, func \o name \o <<".json">>} |->
            IF p[Len(p)] = ".json"
            THEN Json([IntendedFor |-> <<"bids::", "sub-">> \o id
                                        \o <<"/", "ses-02", "/", "fmap", "/", "sub-">>
                                        \o id \o <<"_ses-02_dir-AP_epi.nii.gz">>,
                       TaskName |-> <<"rest">>])
            ELSE Nii(4, <<>>, <<"affine", "func">>)]

\* A JSON file of the subject folder whose name does not hold the id and
\* whose content does.
notes_file(id) ==
    LET p == sub_folder(id) \o <<"/", "ses-02", "/", "notes", ".json">>
    IN  [q \in {p} |-> Json([Subject |-> id])]

SubjectTrees(id) ==
    LET dirs == {sub_folder(id), sub_folder(id) \o <<"/", "ses-02">>,
                 sub_folder(id) \o <<"/", "ses-02", "/", "func">>}
    IN  {[dirs |-> {}, files |-> NoFiles],
         [dirs |-> {sub_folder(id)}, files |-> NoFiles],
         [dirs |-> dirs, files |-> bids_files(id)],
         [dirs |-> dirs, files |-> bids_files(id) @@ notes_file(id)]}

\* A folder that already carries a CID when the script starts.
RecodedTrees ==
    {t \in SubjectTrees(<<"2", "1">>) : DOMAIN t.files \in {{}, DOMAIN bids_files(<<"2", "1">>)}}

Datasets ==
    {[dirs |-> a.dirs \cup b.dirs \cup c.dirs, files |-> a.files @@ b.files @@ c.files] :
        a \in SubjectTrees(<<"1", "1">>), b \in SubjectTrees(<<"1", "2">>),
        c \in RecodedTrees}

\* The names that -s may give: folders, a folder that carries a CID, and
\* an id without its prefix.
SubjectNames ==
    {sub_folder(v) : v \in VETSAIDs} \cup {sub_folder(<<"2", "1">>), <<"1", "1">>}

ListsOf(S, n) == UNION {[1..k -> S] : k \in 0..n}

RecodeInit ==
    /\ script = "5_recode_to_cid.py"
    /\ argv = <<>>
    /\ bids_dir = "/data/bids"
    /\ df \in ListsOf([VETSAID : VETSAIDs, CID : CIDs], MaxRows)
    /\ \/ pc = "main" /\ subject_list = <<>>
       \/ pc = "main -s" /\ subject_list \in ListsOf(SubjectNames, MaxSubjects)
    /\ idx = 1
    /\ disk \in Datasets
    /\ disk0 = disk
    /\ pre = disk
    /\ last = [NoCall EXCEPT !.sub = <<>>]
    /\ successful_subjects = <<>>
    /\ unsuccessful_subjects = <<>>

\* os.listdir(bids_dir), in the order the system gives, filtered by
\* f.startswith('sub-')
listdir_sub(fs) ==
    LET names == {p \in fs.dirs \cup DOMAIN fs.files :
                    last_sep(p) = 0 /\ Len(p) > 0 /\ p[1] = "sub-"}
    IN  {f \in [1..Cardinality(names) -> names] :
            \A i, j \in 1..Cardinality(names) : i # j => f[i] # f[j]}

\* main up to its loop: the key file is read and the subjects are listed.
recode_main_starts ==
    /\ script = "5_recode_to_cid.py"
    /\ pc \in {"main", "main -s"}
    /\ IF pc = "main"
       THEN subject_list' \in listdir_sub(disk)
       ELSE subject_list' = subject_list
    /\ pc' = "loop"
    /\ UNCHANGED <<script, argv, bids_dir, df, idx, disk, disk0, pre, last,
                   successful_subjects, unsuccessful_subjects>>

\* One pass of `for subject in subjects`.
recode_main_iteration ==
    /\ InLoop("5_recode_to_cid.py")
    /\ LET subject == subject_list[idx]
           st == recode_main_body(Start(disk), subject, df)
           renamed == \E i \in 1..Len(st.steps) : st.steps[i] = "os.rename"
       IN  /\ disk' = FolderOf(st)
           /\ pre' = disk
           /\ last' = Call(subject, "main", st,
                           IF renamed
                           THEN Append(last.args,
                                       <<subject,
                                         sub_folder(get_vetsaid_to_cid(df)[split_1(subject)])>>)
                           ELSE last.args)
           /\ pc' = IF st.res = "raise" THEN "crashed" ELSE "loop"
    /\ idx' = idx + 1
    /\ UNCHANGED <<script, argv, bids_dir, subject_list, df, disk0,
                   successful_subjects, unsuccessful_subjects>>

\* The loop is over: main returns.
recode_main_returns ==
    /\ script = "5_recode_to_cid.py"
    /\ pc = "loop"
    /\ idx > Len(subject_list)
    /\ pc' = "done"
    /\ UNCHANGED <<script, argv, bids_dir, subject_list, df, idx, disk, disk0, pre, last,
                   successful_subjects, unsuccessful_subjects>>

RecodeNext ==
    \/ recode_main_starts
    \/ recode_main_iteration
    \/ recode_main_returns

SpecRecode == RecodeInit /\ [][RecodeNext]_vars

(***************************************************************************)
(* The scripts started from the command line.  argv holds the arguments    *)
(* after the script's name (sys.argv[1:]), each a string: a flag, the      *)
(* path the run's data lies at, or a folder name.  pc = "start" is the     *)
(* interpreter at the `if __name__ == '__main__'` block; "exit n" is the   *)
(* process ended with status n, "crashed" an uncaught exception (status 1  *)
(* of the interpreter), "main elsewhere" main called with paths other      *)
(* than the dataset's, which the model does not follow.                    *)
(***************************************************************************)
MaxArgs == 3

a_path == <<"path">>
Flags == {<<"-b">>, <<"-k">>, <<"-s">>, <<"-h">>}
Tokens == Flags \cup {a_path}

\* Faulty variant: the count of the arguments is not looked at.
wrong_argc_never(args) == FALSE

\* len(sys.argv) != 3, the script's name being sys.argv[0]
wrong_argc(args) == Len(args) # 2

\* The block of the seven scripts that import sys: usage and exit code 1
\* on a wrong count, else main(sys.argv[1], sys.argv[2]).
argv_entry ==
    /\ pc = "start"
    /\ script \in Scripts \ {"4_wave2_fmri-sdc-ucsd.py"}
    /\ IF wrong_argc(argv)
       THEN /\ pc' = "exit 1"
            /\ last' = Call("", "__main__", sys_exit(print(Start(NoSubject), "Usage")), argv)
       ELSE /\ last' = Call("", "__main__", Start(NoSubject), argv)
            /\ pc' = IF Len(argv) # 2 \/ \E i \in 1..Len(argv) : argv[i] # a_path
                     THEN "main elsewhere"
                     ELSE IF script = "2_delete_excluded_runs.py" THEN "rename"
                     ELSE "loop"
    /\ UNCHANGED <<script, argv, bids_dir, subject_list, df, idx, disk, disk0, pre,
                   successful_subjects, unsuccessful_subjects>>

\* The block of 4_wave2_fmri-sdc-ucsd.py, which does not import sys: the
\* test of the count raises NameError.
sdc_entry ==
    /\ pc = "start"
    /\ script = "4_wave2_fmri-sdc-ucsd.py"
    /\ pc' = "crashed"
    /\ last' = Call("", "__main__", raise(Start(NoSubject)), argv)
    /\ UNCHANGED <<script, argv, bids_dir, subject_list, df, idx, disk, disk0, pre,
                   successful_subjects, unsuccessful_subjects>>

\* parser.parse_args() of 5_recode_to_cid.py: -b and -k take one value and
\* are required, -s takes the values that follow it, -h prints the help and
\* exits; an argument that belongs to no flag is an error at the end.
RECURSIVE parse_args(_, _)
parse_args(args, ns) ==
    IF args = <<>>
    THEN IF ns.bids_dir = <<>> \/ ns.key = <<>> \/ ns.extras
         THEN [ns EXCEPT !.res = "error"]
         ELSE ns
    ELSE IF Head(args) = <<"-h">> THEN [ns EXCEPT !.res = "help"]
    ELSE IF Head(args) \in {<<"-b">>, <<"-k">>}
    THEN IF Len(args) < 2 \/ args[2] \in Flags
         THEN [ns EXCEPT !.res = "error"]
         ELSE parse_args(SubSeq(args, 3, Len(args)),
                         IF Head(args) = <<"-b">>
                         THEN [ns EXCEPT !.bids_dir = args[2]]
                         ELSE [ns EXCEPT !.key = args[2]])
    ELSE IF Head(args) = <<"-s">>
    THEN LET n == CHOOSE k \in 0..(Len(args) - 1) :
                     /\ \A i \in 2..(k + 1) : args[i] \notin Flags
                     /\ (k + 2 <= Len(args) => args[k + 2] \in Flags)
         IN  parse_args(SubSeq(args, n + 2, Len(args)),
                        [ns EXCEPT !.given = TRUE, !.subjects_list = SubSeq(args, 2, n + 1)])
    ELSE parse_args(Tail(args), [ns EXCEPT !.extras = TRUE])

\* The namespace before parsing: no value, subjects_list None.
no_args == [bids_dir |-> <<>>, key |-> <<>>, given |-> FALSE, subjects_list |-> <<>>,
            extras |-> FALSE, res |-> "ok"]

\* The block of 5_recode_to_cid.py: the arguments are parsed and main is
\* called with them.
argparse_entry ==
    /\ pc = "start"
    /\ script = "5_recode_to_cid.py"
    /\ LET args == parse_args(argv, no_args)
       IN  /\ pc' = CASE args.res = "error" -> "exit 2"
                      [] args.res = "help" -> "exit 0"
                      [] args.bids_dir # a_path \/ args.key # a_path -> "main elsewhere"
                      [] args.given -> "main -s"
                      [] OTHER -> "main"
           /\ subject_list' = IF args.res = "ok" THEN args.subjects_list ELSE subject_list
           /\ last' = Call(<<>>, "__main__",
                           IF args.res = "ok" THEN Start(NoSubject)
                           ELSE sys_exit(print(Start(NoSubject), "usage")), argv)
    /\ UNCHANGED <<script, argv, bids_dir, df, idx, disk, disk0, pre,
                   successful_subjects, unsuccessful_subjects>>

\* Command lines of 5_recode_to_cid.py that give both required flags.
RecodeCommands ==
    LET both == {<<<<"-b">>, a_path, <<"-k">>, a_path>>, <<<<"-k">>, a_path, <<"-b">>, a_path>>,
                 <<<<"-b">>, sub_folder(<<"1", "1">>), <<"-k">>, a_path>>}
        names == ListsOf({sub_folder(v) : v \in VETSAIDs}, MaxSubjects)
    IN  both \cup {c \o <<<<"-s">>>> \o n : c \in both, n \in names}
             \cup {<<<<"-s">>>> \o n \o c : c \in both, n \in names}
             \cup {c \o <<<<"-h">>>> : c \in both}
             \cup {c \o <<a_path>> : c \in both}

CliInit ==
    /\ script \in Scripts \cup {"5_recode_to_cid.py"}
    /\ bids_dir = "/data/bids"
    /\ pc = "start"
    /\ idx = 1
    /\ IF script = "5_recode_to_cid.py"
       THEN /\ df \in ListsOf([VETSAID : VETSAIDs, CID : {<<"2", "1">>}], 1)
            /\ subject_list = <<>>
            /\ disk \in {d \in Datasets : sub_folder(<<"2", "1">>) \notin d.dirs}
            /\ last = [NoCall EXCEPT !.sub = <<>>]
       ELSE /\ IF script = "2_delete_excluded_runs.py"
               THEN df \in {r \in RowLists : Len(r) <= 1} /\ subject_list = <<>>
               ELSE df = <<>> /\ subject_list = <<"s1">>
            /\ \E a \in Folders(script, "s1") :
                  disk = ("s1" :> a) @@ ("s2" :> NoSubject)
            /\ last = NoCall
    /\ disk0 = disk
    /\ pre = disk
    /\ successful_subjects = <<>>
    /\ unsuccessful_subjects = <<>>
    /\ argv \in ListsOf(Tokens, MaxArgs)
                \cup (IF script = "5_recode_to_cid.py" THEN RecodeCommands ELSE {})

\* The entry blocks, and main of every script whose block can call it: the
\* block of 4_wave2_fmri-sdc-ucsd.py never reaches its call of main.
CliNext ==
    \/ argv_entry
    \/ sdc_entry
    \/ argparse_entry
    \/ prep_main_iteration
    \/ ape_main_iteration
    \/ w1_main_iteration
    \/ w2_main_iteration
    \/ w3_main_iteration
    \/ v3_main_iteration
    \/ del_rename_iteration
    \/ del_renames_done
    \/ del_delete_iteration
    \/ main_returns
    \/ recode_main_starts
    \/ recode_main_iteration
    \/ recode_main_returns

SpecCli == CliInit /\ [][CliNext]_vars

(***************************************************************************)
(* Claims on split_func_run and merge_func_files (SpecUnit).               *)
(***************************************************************************)
AP_file == WithDir(bold_file, "AP")
PA_file == WithDir(bold_file, "PA")
Data(folders, s, p) == folders[s].files[p].data
Even(n) == n % 2 = 0

\* Two frames are the same acquisition when they are equal or mirror images
\* of each other along the y axis.
SameAcquisition(f, g) == f = g \/ f = FlipY(g)

SplitDone == last.op = "split_func_run" /\ last.res = "run"
MergeDone == last.op = "merge_func_files" /\ last.res = "run"
MergeCalled == last.op = "merge_func_files"

\* C1: after split_func_run on a volume V of even length N, the dir-AP file
\* holds the acquisitions of V at 0-based indices 0,2,..,N-2 in that order
\* and the dir-PA file those at 1,3,..,N-1 in that order, N/2 frames each,
\* so that no frame is dropped or duplicated.
C1_SplitDeinterleaves ==
    (SplitDone /\ Even(Len(Data(pre, "s1", bold_file)))) =>
        LET V == Data(pre, "s1", bold_file)
            AP == Data(disk, "s1", AP_file)
            PA == Data(disk, "s1", PA_file)
            half == Len(V) \div 2
        IN  /\ Len(AP) = half /\ Len(PA) = half
            /\ Len(AP) + Len(PA) = Len(V)
            /\ \A k \in 0..(half - 1) :
                  /\ SameAcquisition(AP[k + 1], V[2 * k + 1])
                  /\ PA[k + 1] = V[2 * k + 2]

C1_Witness ==
    /\ SplitDone
    /\ Len(Data(pre, "s1", bold_file)) = 4
    /\ Cardinality({Data(pre, "s1", bold_file)[i] : i \in 1..4}) = 4
    /\ Len(Data(disk, "s1", AP_file)) = 2

\* C2: merge_func_files on an AP and a PA volume of equal length M writes
\* 2M frames, frame 2k the AP frame k and frame 2k+1 the PA frame k (0-based).
C2_MergeInterleaves ==
    (MergeDone /\ Len(Data(pre, "s1", last.args[1]))
                    = Len(Data(pre, "s1", last.args[2]))) =>
        LET AP == Data(pre, "s1", last.args[1])
            PA == Data(pre, "s1", last.args[2])
            out == Data(disk, "s1", WithDir(last.args[1], ""))
            M == Len(AP)
        IN  /\ Len(out) = 2 * M
            /\ \A k \in 0..(M - 1) :
                  /\ out[2 * k + 1] = AP[k + 1]
                  /\ out[2 * k + 2] = PA[k + 1]

C2_Witness ==
    /\ MergeDone
    /\ Len(Data(pre, "s1", last.args[1])) = 2
    /\ Len(Data(pre, "s1", last.args[2])) = 2
    /\ \A k \in 1..2 : Data(pre, "s1", last.args[1])[k] # Data(pre, "s1", last.args[2])[k]
    /\ Data(pre, "s1", last.args[1])[1] # Data(pre, "s1", last.args[1])[2]

\* The frames with the flip of the even (0-based) ones reversed.
ReverseFlip(data) ==
    [i \in 1..Len(data) |-> IF i % 2 = 1 THEN FlipY(data[i]) ELSE data[i]]

\* The files given to merge_func_files hold what split_func_run wrote.
MergedTheSplit ==
    /\ Data(pre, "s1", last.args[1]) = Data(pre, "s1", AP_file)
    /\ Data(pre, "s1", last.args[2]) = Data(pre, "s1", PA_file)

\* C3: for a volume V of even length, merge_func_files on the two outputs of
\* split_func_run gives a volume whose frame i is the acquisition of V's
\* frame i for every i: with the flip of the AP frames reversed it is V.
C3_RoundTrip ==
    (MergeDone /\ MergedTheSplit /\ Even(Len(Data(disk0, "s1", bold_file)))) =>
        LET V == Data(disk0, "s1", bold_file)
            out == Data(disk, "s1", WithDir(last.args[1], ""))
        IN  /\ Len(out) = Len(V)
            /\ ReverseFlip(out) = V

C3_Witness ==
    /\ MergeDone /\ MergedTheSplit
    /\ Len(Data(disk0, "s1", bold_file)) = 4
    /\ Cardinality({Data(disk0, "s1", bold_file)[i] : i \in 1..4}) = 4
    /\ Data(disk, "s1", WithDir(last.args[1], "")) # Data(disk0, "s1", bold_file)

\* C6 (as claimed): merge_func_files raises and writes nothing whenever the
\* AP and the PA input have different frame counts.
C6_MergeRejectsUnequal ==
    (MergeCalled /\ Len(Data(pre, "s1", last.args[1]))
                      # Len(Data(pre, "s1", last.args[2]))) =>
        (last.res = "raise" /\ disk = pre)

\* C9: split_func_run flips the AP output only: every dir-PA frame equals the
\* odd-indexed input frame, every dir-AP frame is the y-mirror of the
\* even-indexed input frame.
C9_FlipOnlyAP ==
    SplitDone =>
        LET V == Data(pre, "s1", bold_file)
            AP == Data(disk, "s1", AP_file)
            PA == Data(disk, "s1", PA_file)
        IN  /\ \A k \in 1..Len(AP) :
                  \A y \in 1..YDim : AP[k][y] = V[2 * k - 1][YDim + 1 - y]
            /\ \A k \in 1..Len(PA) :
                  \A y \in 1..YDim : PA[k][y] = V[2 * k][y]

C9_Witness ==
    /\ SplitDone
    /\ \E k \in 1..Len(Data(disk, "s1", AP_file)) :
          Data(disk, "s1", AP_file)[k] # Data(pre, "s1", bold_file)[2 * k - 1]
    /\ \E k \in 1..Len(Data(disk, "s1", PA_file)) :
          FlipY(Data(pre, "s1", bold_file)[2 * k]) # Data(pre, "s1", bold_file)[2 * k]

(***************************************************************************)
(* Claims on the scripts (Spec).  After an iteration of main's loop, last  *)
(* is the call on subject last.sub, pre its folder before and disk after.  *)
(***************************************************************************)
Iter == last.op = "main"
Before == pre[last.sub]
After == disk[last.sub]
Ran(name) == \E k \in 1..Len(last.steps) : last.steps[k] = name
IsFmri == script \in {"4_wave2_prep-fmri.py", "4_wave2_fmri-ucsd-split-ape.py"}
IsFunc == IsFmri \/ script = "4_wave2_fmri-sdc-ucsd.py"
bold_json == WithExt(bold_file, ".json")
Has(folder, p) == p \in DOMAIN folder.files
NVols(folder, p) == Len(folder.files[p].data)

\* An image file of the folder that the iteration wrote: new, or changed.
Written(p) ==
    /\ Has(After, p) /\ After.files[p].kind = "nii"
    /\ (~Has(Before, p) \/ Before.files[p] # After.files[p])

\* The subject's folder held a UCSD run of the expected length, with the
\* folders and the sidecar the script needs to reach the split.
UCSDRun(folder) ==
    /\ {"func", "fmap"} \subseteq folder.dirs
    /\ Has(folder, bold_file) /\ Has(folder, bold_json)
    /\ folder.files[bold_json].d["ManufacturersModelName"] = "DISCOVERY MR750"
    /\ NVols(folder, bold_file) = ExpectedFuncVols

\* C4 (as claimed): the merged bold file of a 100-frame run is the original
\* volume, every frame unchanged.
C4_MergedIsOriginal ==
    (IsFmri /\ Iter /\ UCSDRun(Before)) =>
        /\ Has(After, bold_file)
        /\ After.files[bold_file].data = Before.files[bold_file].data

\* C4 (amended): on a 100-frame UCSD run the script writes a dir-AP and a
\* dir-PA file of 50 frames each and a merged bold file of 100 frames whose
\* odd (0-based) frames are the input's and whose even (0-based) frames are
\* the y-mirrors of the input's.
C4_PipelineScenario ==
    (IsFmri /\ Iter /\ UCSDRun(Before)) =>
        /\ Has(After, AP_file) /\ Has(After, PA_file) /\ Has(After, bold_file)
        /\ NVols(After, AP_file) = ExpectedFuncVols \div 2
        /\ NVols(After, PA_file) = ExpectedFuncVols \div 2
        /\ NVols(After, bold_file) = ExpectedFuncVols
        /\ \A i \in 1..ExpectedFuncVols :
              After.files[bold_file].data[i] =
                 IF i % 2 = 1 THEN FlipY(Before.files[bold_file].data[i])
                 ELSE Before.files[bold_file].data[i]

C4_Witness ==
    /\ IsFmri /\ Iter /\ UCSDRun(Before)
    /\ last.res = "ok"
    /\ Ran("split_func_run") /\ Ran("merge_func_files")
    /\ After.files[bold_file].data # Before.files[bold_file].data

\* The iteration split an image of n frames held in file p.
SplitOf(scr, step, p, n) ==
    /\ script = scr /\ Iter /\ Ran(step)
    /\ Has(Before, p) /\ NVols(Before, p) = n

\* The files p and q are each a 4-D volume of n frames.
TwoVolumesOf(p, q, n) ==
    /\ Has(After, p) /\ Has(After, q)
    /\ After.files[p].ndim = 4 /\ After.files[q].ndim = 4
    /\ NVols(After, p) = n /\ NVols(After, q) = n

HalvedRuns ==
    /\ SplitOf("3_wave1_correct_dwi_data.py", "split_dwi",
               dwi_path("", "AP", ".nii.gz"), W1_NVols)
          => TwoVolumesOf(dwi_path("", "AP", ".nii.gz"), dwi_path("", "PA", ".nii.gz"),
                          W1_NVols \div 2)
    /\ SplitOf("3_wave2_correct_dwi_data.py", "split_dwi",
               dwi_path("single", "AP", ".nii.gz"), BU_NVols)
          => TwoVolumesOf(dwi_path("single", "AP", ".nii.gz"),
                          dwi_path("single", "PA", ".nii.gz"), BU_NVols \div 2)
    /\ SplitOf("4_wave2_prep-fmri.py", "split_func_run", bold_file, ExpectedFuncVols)
          => TwoVolumesOf(AP_file, PA_file, ExpectedFuncVols \div 2)
    /\ SplitOf("4_wave2_fmri-ucsd-split-ape.py", "split_func_run", bold_file,
               ExpectedFuncVols)
          => TwoVolumesOf(AP_file, PA_file, ExpectedFuncVols \div 2)

W3MultiSplit ==
    SplitOf("3_wave3_correct_dwi_data.py", "split_epis",
            dwi_path("multi", "", ".nii.gz"), W3_Multi_NVols)

\* C5 (as claimed): for N in {70, 100, 62, 56} the script that handles an
\* N-frame volume splits it into two volumes of N/2 frames each.
C5_SplitsInHalves ==
    /\ HalvedRuns
    /\ W3MultiSplit =>
          TwoVolumesOf(epi_path("multi", "AP", ".nii.gz"),
                       epi_path("multi", "PA", ".nii.gz"), W3_Multi_NVols \div 2)

\* C5 (amended): for N in {70, 62, 100} the script splits the N-frame volume
\* into two volumes of N/2 frames each; the wave 3 multi-shell script takes
\* frame 0 and frame 1 of its 56-frame volume as two single-frame epi images
\* and keeps frames 1..55 as the diffusion volume.
C5_SplitsByProtocol ==
    /\ HalvedRuns
    /\ W3MultiSplit =>
          LET V == Before.files[dwi_path("multi", "", ".nii.gz")].data
              epi_AP == After.files[epi_path("multi", "AP", ".nii.gz")]
              epi_PA == After.files[epi_path("multi", "PA", ".nii.gz")]
              dwi == After.files[dwi_path("multi", "PA", ".nii.gz")]
          IN  /\ epi_AP.ndim = 3 /\ epi_AP.data = <<FlipY(V[1])>>
              /\ epi_PA.ndim = 3 /\ epi_PA.data = <<V[2]>>
              /\ dwi.ndim = 4 /\ Len(dwi.data) = W3_Multi_NVols - 1
              /\ dwi.data = SubSeq(V, 2, W3_Multi_NVols)
              /\ \A p \in DOMAIN After.files :
                    After.files[p].kind = "nii" => NVols(After, p) # W3_Multi_NVols \div 2

C5_Witness ==
    /\ W3MultiSplit
    /\ last.res = "none"
    /\ Len(After.files[dwi_path("multi", "PA", ".nii.gz")].data) = W3_Multi_NVols - 1

\* The frame counts the protocol fixes for the source image p of the script.
ExpectedCounts(folder, p) ==
    IF IsFunc THEN {ExpectedFuncVols}
    ELSE IF script = "3_wave1_correct_dwi_data.py" THEN {W1_NVols}
    ELSE IF script = "3_wave2_correct_dwi_data.py"
         THEN (IF Has(folder, WithExt(p, ".json"))
                  /\ folder.files[WithExt(p, ".json")].d["ManufacturersModelName"] = "TrioTim"
               THEN {BU_NVols} ELSE {UCSD_Single_NVols})
    ELSE IF p.acq = "multi" THEN {W3_Multi_NVols, W3_Multi_AltNVols}
    ELSE {W3_Single_NVols}

\* The images the script splits.
SourceImages ==
    IF IsFunc THEN {bold_file}
    ELSE IF script = "3_wave1_correct_dwi_data.py" THEN {dwi_path("", "AP", ".nii.gz")}
    ELSE IF script = "3_wave2_correct_dwi_data.py" THEN {dwi_path("single", "AP", ".nii.gz")}
    ELSE {dwi_path("multi", "", ".nii.gz"), dwi_path("single", "", ".nii.gz")}

\* Every image and table of the folder holds what some file held before: the
\* iteration renamed at most, and wrote no split output.
NoSplitOutput ==
    \A p \in DOMAIN After.files :
        After.files[p].kind \in {"nii", "txt"} =>
            \E q \in DOMAIN Before.files : Before.files[q] = After.files[p]

\* C7 (as claimed): in every script, when the frame count of the subject's
\* image is not the protocol's, no split output is written for the subject.
C7_CountCheckedBeforeSplit ==
    (Iter /\ \A p \in SourceImages :
                Has(Before, p) => NVols(Before, p) \notin ExpectedCounts(Before, p)) =>
        NoSplitOutput

\* main was not ended by the iteration: it is in its loop, or has returned
\* after the last subject.
MainGoesOn == pc \in {"loop", "done"}

\* A prerequisite of the subject is absent: a folder, every source image, or
\* the sidecar of a source image.
MissingPrerequisite(folder) ==
    \/ IsFunc /\ ~({"func", "fmap"} \subseteq folder.dirs)
    \/ ~IsFunc /\ "dwi" \notin folder.dirs
    \/ \A p \in SourceImages : ~Has(folder, p)
    \/ \E p \in SourceImages : Has(folder, p) /\ ~Has(folder, WithExt(p, ".json"))

\* C10 (as claimed): in every script, when a prerequisite of the subject is
\* absent a message is printed, the subject is skipped with its folder as it
\* was, and main goes on with the list: nothing is raised out of main.
C10_MissingPrerequisiteSkipped ==
    (Iter /\ MissingPrerequisite(Before)) =>
        /\ last.res = "none"
        /\ last.out # <<>>
        /\ After = Before
        /\ MainGoesOn

\* C8: when the processing of a UCSD functional run completes, the sidecar of
\* the interleaved bold file has no PhaseEncodingDirection key.
C8_NoDirectionOnMergedRun ==
    (IsFmri /\ Iter /\ last.res = "ok" /\ Ran("merge_func_files")) =>
        /\ Has(After, bold_json)
        /\ "PhaseEncodingDirection" \notin DOMAIN After.files[bold_json].d

C8_Witness ==
    /\ IsFmri /\ Iter /\ last.res = "ok" /\ Ran("merge_func_files")
    /\ "PhaseEncodingDirection" \in DOMAIN Before.files[bold_json].d
    /\ After.files[bold_file].data # Before.files[bold_file].data

(***************************************************************************)
(* Claims on what main does with a subject that cannot be processed.       *)
(***************************************************************************)
Printed(m) == \E k \in 1..Len(last.out) : last.out[k] = m

CountMessages == {"Functional run has the wrong number of volumes",
                  "Error: Incorrect number of volumes in dwi file"}

\* The model name in the sidecar of the source image p, "" when the script
\* does not read it.
ModelOf(folder, p) ==
    IF script = "3_wave3_correct_dwi_data.py" THEN ""
    ELSE folder.files[WithExt(p, ".json")].d["ManufacturersModelName"]

\* The models for which the script goes on to compare the frame count.
CheckedModels ==
    IF IsFunc THEN {"DISCOVERY MR750"}
    ELSE IF script = "3_wave1_correct_dwi_data.py" THEN {"Avanto", "Symphony"}
    ELSE IF script = "3_wave2_correct_dwi_data.py" THEN {"TrioTim", "DISCOVERY MR750"}
    ELSE {""}

\* The folder holds everything the script reads before it compares the frame
\* count of a source image, and that count is not the protocol's.
WrongFrameCount(folder) ==
    /\ script # "3_correct_dwi_data_v3.py"
    /\ ~MissingPrerequisite(folder)
    /\ \E p \in SourceImages :
          /\ Has(folder, p)
          /\ ModelOf(folder, p) \in CheckedModels
          /\ NVols(folder, p) \notin ExpectedCounts(folder, p)

\* C11 (as claimed): in every script that checks a frame count, a subject
\* whose image has the wrong number of frames gets an error message and main
\* goes on with the next subject of the list: it neither raises nor exits.
C11_WrongCountSkipped ==
    (Iter /\ WrongFrameCount(Before)) =>
        /\ \E m \in CountMessages : Printed(m)
        /\ last.res = "none"
        /\ MainGoesOn

\* The two model names get_site of the script recognises.
RecognisedModels ==
    IF script = "3_wave1_correct_dwi_data.py" THEN {"Avanto", "Symphony"}
    ELSE {"TrioTim", "DISCOVERY MR750"}

DerivesSite == IsFunc \/ script \in {"3_wave1_correct_dwi_data.py",
                                     "3_wave2_correct_dwi_data.py"}

\* The folder holds what the script reads up to get_site, and the model name
\* in the sidecar is neither of the two the script recognises.
UnknownModel(folder) ==
    /\ DerivesSite
    /\ ~MissingPrerequisite(folder)
    /\ \E p \in SourceImages :
          Has(folder, p) /\ ModelOf(folder, p) \notin RecognisedModels

\* C12 (as claimed): in every script that derives the site from
\* ManufacturersModelName, a model name that is neither recognised one ends
\* the process at that subject: main does not go on to a later subject.
C12_UnknownModelFatal ==
    (Iter /\ UnknownModel(Before)) =>
        /\ last.res \in {"exit", "raise"}
        /\ ~MainGoesOn

\* C12 (amended): such a model name is always reported and leaves the
\* subject's folder as it was.  The wave 1 and wave 2 diffusion scripts then
\* exit; 4_wave2_fmri-sdc-ucsd.py raises; 4_wave2_prep-fmri.py and
\* 4_wave2_fmri-ucsd-split-ape.py skip the subject and go on with the list,
\* the former recording the subject as unsuccessful.
C12_UnknownModelByScript ==
    (Iter /\ UnknownModel(Before)) =>
        /\ Printed("Unknown manufacturer model")
        /\ After = Before
        /\ IF ~IsFunc THEN last.res = "exit" /\ pc = "exited"
           ELSE IF ~IsFmri THEN last.res = "raise" /\ pc = "crashed"
           ELSE /\ last.res = "none" /\ MainGoesOn
                /\ script = "4_wave2_prep-fmri.py" =>
                     \E k \in 1..Len(unsuccessful_subjects) :
                        unsuccessful_subjects[k] = last.sub

\* A later subject was processed to the end after a subject with an
\* unrecognised model.
C12_Witness ==
    /\ script = "4_wave2_prep-fmri.py" /\ Iter /\ idx = 3
    /\ subject_list[1] # subject_list[2]
    /\ UnknownModel(disk0[subject_list[1]])
    /\ unsuccessful_subjects = <<subject_list[1]>>
    /\ last.sub = subject_list[2] /\ last.res = "ok"
    /\ Ran("merge_func_files")

(***************************************************************************)
(* Claims on what one subject's processing does to the others.             *)
(***************************************************************************)
\* The last step worked on subject last.sub: an iteration of a main loop, or
\* a rename or a deletion of 2_delete_excluded_runs.py.
OnSubject == last.op \in {"main", "rename_files", "delete_files"}

\* What the body of the script's main loop can make of a folder.
Bodies(folder, vetsaid) ==
    LET st == Start(folder)
    IN  CASE script = "4_wave2_prep-fmri.py" -> {prep_main_body(st, vetsaid)}
          [] script = "4_wave2_fmri-ucsd-split-ape.py" -> {ape_main_body(st, vetsaid)}
          [] script = "4_wave2_fmri-sdc-ucsd.py" ->
                {sdc_main_body(st, vetsaid, a, b) : a \in BOOLEAN, b \in BOOLEAN}
          [] script = "3_wave1_correct_dwi_data.py" -> {w1_main_body(st, vetsaid)}
          [] script = "3_wave2_correct_dwi_data.py" -> {w2_main_body(st, vetsaid)}
          [] script = "3_wave3_correct_dwi_data.py" -> {w3_main_body(st, vetsaid)}
          [] script = "3_correct_dwi_data_v3.py" -> {v3_main_body(st, vetsaid)}
          [] OTHER -> {}

\* The subject of the last iteration was not in the list before.
FirstTime == \A k \in 1..(idx - 2) : subject_list[k] # last.sub

RenamesFirst == script \in {"3_wave2_correct_dwi_data.py", "3_wave3_correct_dwi_data.py"}

\* The acquisitions the script renames to dir-PA, and the name of a file of
\* one of them as the conversion step left it.
Acqs == IF script = "3_wave2_correct_dwi_data.py" THEN {"single"} ELSE {"multi", "single"}
SourceName(acq, ext) ==
    dwi_path(acq, IF script = "3_wave2_correct_dwi_data.py" THEN "AP" ELSE "", ext)
Sidecars == {".json", ".bval", ".bvec"}

\* The script renames the image of the acquisition and then finds its frame
\* count wrong (in wave 2, for a run acquired at UCSD).
MismatchAfterRename(folder, acq) ==
    /\ RenamesFirst /\ acq \in Acqs
    /\ "dwi" \in folder.dirs
    /\ Has(folder, SourceName(acq, ".nii.gz"))
    /\ NVols(folder, SourceName(acq, ".nii.gz"))
          \notin ExpectedCounts(folder, SourceName(acq, ".nii.gz"))
    /\ script = "3_wave2_correct_dwi_data.py" =>
          /\ Has(folder, SourceName(acq, ".json"))
          /\ ModelOf(folder, SourceName(acq, ".nii.gz")) = "DISCOVERY MR750"

\* The image of the acquisition has its dir-PA name and no file has the
\* source name, while the three sidecars have their old names.
Stranded(folder, acq) ==
    /\ RenamesFirst /\ acq \in Acqs
    /\ "dwi" \in folder.dirs
    /\ ~Has(folder, SourceName(acq, ".nii.gz"))
    /\ Has(folder, dwi_path(acq, "PA", ".nii.gz"))
    /\ \A ext \in Sidecars :
          Has(folder, SourceName(acq, ext)) /\ ~Has(folder, dwi_path(acq, "PA", ext))

\* C14: in the wave 2 (UCSD) and wave 3 diffusion scripts, an iteration that
\* stops on a frame-count mismatch leaves the image under its dir-PA name
\* and the sidecars under their old names; an iteration that finds a folder
\* in that state prints that no data was found and leaves the image and the
\* sidecars of the acquisition as they are.
C14_PartialRenameStays ==
    \A acq \in {"multi", "single"} :
        /\ (Iter /\ last.res = "none" /\ MismatchAfterRename(Before, acq)) =>
              /\ ~Has(After, SourceName(acq, ".nii.gz"))
              /\ Has(After, dwi_path(acq, "PA", ".nii.gz"))
              /\ After.files[dwi_path(acq, "PA", ".nii.gz")]
                    = Before.files[SourceName(acq, ".nii.gz")]
              /\ \A ext \in Sidecars :
                    /\ ~Has(After, dwi_path(acq, "PA", ext))
                    /\ Has(Before, SourceName(acq, ext)) =>
                          /\ Has(After, SourceName(acq, ext))
                          /\ After.files[SourceName(acq, ext)]
                                = Before.files[SourceName(acq, ext)]
        /\ (Iter /\ Stranded(Before, acq)) =>
              /\ last.res = "none" /\ MainGoesOn
              /\ Printed(IF acq = "multi" THEN "No multi-shell data found"
                                          ELSE "No single-shell data found")
              /\ Stranded(After, acq)
              /\ \A p \in DOMAIN Before.files :
                    p.acq = acq => Has(After, p) /\ After.files[p] = Before.files[p]

\* The second run over a subject whose first run stopped on the mismatch.
C14_Witness ==
    /\ Iter /\ idx = 3 /\ subject_list[1] = subject_list[2]
    /\ \E acq \in {"multi", "single"} :
          /\ MismatchAfterRename(disk0[last.sub], acq)
          /\ Stranded(Before, acq)
          /\ Stranded(After, acq)
    /\ Before # disk0[last.sub]

(***************************************************************************)
(* Claims on the gradient tables.                                          *)
(***************************************************************************)
\* The script that splits the tables of an n-column acquisition at `half`.
SplitsTables(n, half) ==
    \/ script = "3_wave1_correct_dwi_data.py" /\ n = W1_NVols /\ half = W1_Half
    \/ script = "3_wave2_correct_dwi_data.py" /\ n = BU_NVols /\ half = BU_Half

TableName(pe, ext) ==
    dwi_path(IF script = "3_wave1_correct_dwi_data.py" THEN "" ELSE "single", pe, ext)

\* The table `ext` of the folder has n values in every row.
TableOf(folder, ext, n) ==
    /\ Has(folder, TableName("AP", ext))
    /\ \A r \in 1..Len(folder.files[TableName("AP", ext)].rows) :
          Len(folder.files[TableName("AP", ext)].rows[r]) = n

\* C15: split_bval_bvec on tables whose rows hold 70 values writes an AP and
\* a PA file with as many rows as the source, 35 values per row each, the AP
\* values followed by the PA values being the source row; likewise at 31 for
\* the 62-value rows of split_bu_bval_bvec.
C15_TablesSplitInOrder ==
    \A n \in {W1_NVols, BU_NVols}, half \in {W1_Half, BU_Half}, ext \in {".bval", ".bvec"} :
        (Iter /\ SplitsTables(n, half) /\ Ran("split_bval_bvec")
              /\ TableOf(Before, ext, n)) =>
            LET src == Before.files[TableName("AP", ext)].rows
                ap == After.files[TableName("AP", ext)].rows
                pa == After.files[TableName("PA", ext)].rows
            IN  /\ Len(ap) = Len(src) /\ Len(pa) = Len(src)
                /\ \A r \in 1..Len(src) :
                      /\ Len(ap[r]) = half /\ Len(pa[r]) = half
                      /\ ap[r] \o pa[r] = src[r]

C15_Witness ==
    /\ Iter /\ Ran("split_bval_bvec")
    /\ script = "3_wave2_correct_dwi_data.py"
    /\ TableOf(Before, ".bvec", BU_NVols)
    /\ Len(Before.files[TableName("AP", ".bvec")].rows) = 3
    /\ Len(After.files[TableName("PA", ".bvec")].rows[3]) = BU_Half
    /\ After.files[TableName("PA", ".bvec")].rows[3][1]
          = Before.files[TableName("AP", ".bvec")].rows[3][BU_Half + 1]

(***************************************************************************)
(* Claims on the fieldmap sidecars.                                        *)
(***************************************************************************)
\* A fieldmap sidecar of the subject that the iteration created or changed.
EpiSidecarWritten(p) ==
    /\ Has(After, p)
    /\ p.folder = "fmap" /\ p.suffix = "epi" /\ p.ext = ".json"
    /\ (~Has(Before, p) \/ Before.files[p] # After.files[p])

Completed == Iter /\ last.res \in {"ok", "none"}

\* C16 (as claimed): after a subject was processed without error, the
\* IntendedFor of every fieldmap sidecar written or edited for it is the
\* dataset-relative path (bids::sub-X/...) of an image file of the subject
\* that exists.
C16_IntendedForResolves ==
    Completed =>
        \A p \in DOMAIN After.files :
            (EpiSidecarWritten(p) /\ "IntendedFor" \in DOMAIN After.files[p].d) =>
                LET ref == After.files[p].d["IntendedFor"]
                IN  /\ ref.scheme = "bids::"
                    /\ ref.sub = last.sub
                    /\ Has(After, ref.path)
                    /\ After.files[ref.path].kind = "nii"

\* C17 (as claimed): when the fieldmap JSON file exists, after add_intended
\* the file holds the pairs it held plus IntendedFor equal to the given
\* path; when it does not exist the call prints a message, creates no file
\* and returns normally.
C17_AddIntended ==
    last.op = "add_intended" =>
        IF Has(Before, fmap_func_json("AP"))
        THEN /\ last.res = "run"
             /\ Has(After, fmap_func_json("AP"))
             /\ After.files[fmap_func_json("AP")].d =
                   Put(Before.files[fmap_func_json("AP")].d, "IntendedFor", last.args[1])
        ELSE /\ last.res = "run"
             /\ Printed("No json file found. Skipping...")
             /\ After = Before

\* C19: create_split_func_json writes one sidecar per split file that has
\* the pairs of the bold sidecar except PhaseEncodingDirection, which is
\* "j-" in the dir-AP sidecar and "j" in the dir-PA sidecar; the bold
\* sidecar is as it was.
C19_SplitSidecars ==
    (last.op = "create_split_func_json" /\ last.res = "run") =>
        LET src == Before.files[bold_json].d
            ap == After.files[WithExt(AP_file, ".json")].d
            pa == After.files[WithExt(PA_file, ".json")].d
            others(d) == [k \in DOMAIN d \ {"PhaseEncodingDirection"} |-> d[k]]
        IN  /\ "PhaseEncodingDirection" \in DOMAIN ap /\ ap["PhaseEncodingDirection"] = "j-"
            /\ "PhaseEncodingDirection" \in DOMAIN pa /\ pa["PhaseEncodingDirection"] = "j"
            /\ others(ap) = others(src) /\ others(pa) = others(src)
            /\ After.files[bold_json] = Before.files[bold_json]
            /\ DOMAIN After.files =
                  DOMAIN Before.files \cup {WithExt(AP_file, ".json"), WithExt(PA_file, ".json")}

C19_Witness ==
    /\ last.op = "create_split_func_json" /\ last.res = "run"
    /\ DOMAIN Before.files[bold_json].d =
          {"PhaseEncodingDirection", "RepetitionTime", "IntendedFor"}
    /\ Before.files[bold_json].d["PhaseEncodingDirection"] = "j"
    /\ After.files[WithExt(AP_file, ".json")].d["RepetitionTime"] = 2

\* The diffusion sidecar an epi sidecar of direction pe was derived from:
\* the one of the same direction in wave 1, the dir-PA one elsewhere.
DerivedFrom(p) ==
    IF script = "3_wave1_correct_dwi_data.py" THEN dwi_path(p.acq, p.pe, ".json")
    ELSE dwi_path(p.acq, "PA", ".json")

IsDwiScript == script \in {"3_wave1_correct_dwi_data.py", "3_wave2_correct_dwi_data.py",
                           "3_wave3_correct_dwi_data.py", "3_correct_dwi_data_v3.py"}

\* C18 (as claimed): every fieldmap sidecar created by the create_*_epi_jsons
\* functions has the TotalReadoutTime of the diffusion sidecar it was derived
\* from and an IntendedFor, and its PhaseEncodingDirection is "j-" for the
\* dir-AP epi and "j" for the dir-PA epi.
C18_EpiSidecarFields ==
    (IsDwiScript /\ Completed
        /\ (Ran("create_epi_jsons") \/ Ran("create_single_shell_epi_jsons"))) =>
        \A p \in DOMAIN After.files :
            (EpiSidecarWritten(p) /\ p.pe \in {"AP", "PA"}) =>
                LET d == After.files[p].d
                    dwi == After.files[DerivedFrom(p)].d
                IN  /\ "IntendedFor" \in DOMAIN d
                    /\ "TotalReadoutTime" \in DOMAIN d
                    /\ "TotalReadoutTime" \in DOMAIN dwi
                    /\ d["TotalReadoutTime"] = dwi["TotalReadoutTime"]
                    /\ "PhaseEncodingDirection" \in DOMAIN d
                    /\ d["PhaseEncodingDirection"] = (IF p.pe = "AP" THEN "j-" ELSE "j")

(***************************************************************************)
(* Claims on the geometry of the images.                                   *)
(***************************************************************************)
\* The image q has the affine of image p, and frames of the same size.
SameGeometry(p, q) ==
    /\ p.affine = q.affine
    /\ \A i \in 1..Len(p.data) : Len(p.data[i]) = Len(q.data[1])
    /\ \A j \in 1..Len(q.data) : Len(q.data[j]) = Len(q.data[1])

\* C20: every image file an iteration writes has the affine and the spatial
\* size of the image of the same acquisition it was derived from, which the
\* subject's folder held before; only the frames differ.
C20_GeometryKept ==
    Iter =>
        \A p \in DOMAIN After.files :
            Written(p) =>
                \E q \in DOMAIN Before.files :
                    /\ Before.files[q].kind = "nii"
                    /\ q.acq = p.acq
                    /\ q.suffix \in {"bold", "dwi"} \/ q.suffix = p.suffix
                    /\ SameGeometry(After.files[p], Before.files[q])

\* An iteration wrote a diffusion image and a fieldmap image with fewer
\* frames than their source, in a folder that holds acquisitions with
\* different affines.
C20_Witness ==
    /\ Iter /\ script = "3_wave3_correct_dwi_data.py"
    /\ \E p, q, r \in DOMAIN After.files :
          /\ Written(p) /\ p.folder = "fmap" /\ p.acq = "multi"
          /\ Written(q) /\ q.folder = "dwi" /\ q.acq = "multi"
          /\ Written(r) /\ r.acq = "single"
          /\ After.files[p].affine # After.files[r].affine
          /\ Len(After.files[q].data) < Len(Before.files[dwi_path("multi", "", ".nii.gz")].data)

(***************************************************************************)
(* Claims on 2_delete_excluded_runs.py (Spec).                             *)
(***************************************************************************)
IsDelete == script = "2_delete_excluded_runs.py"

\* The (SubjectID, session) pairs of the csv file.
Listed == {<<df[k].SubjectID, df[k].session>> : k \in 1..Len(df)}

\* The files of a folder that lie under a session.
Under(folder, session) == {f \in DOMAIN folder.files : f.session = session}

\* C22: when main of 2_delete_excluded_runs.py has completed, no file under
\* a listed (SubjectID, session) has a run-NN_ token in its name, and the
\* files under a session that is not listed are as they were.
C22_NoRunFilesLeft ==
    (IsDelete /\ pc = "done") =>
        \A s \in Subjects, session \in Sessions :
            IF <<s, session>> \in Listed
            THEN \A f \in Under(disk[s], session) : f.run = 0
            ELSE /\ Under(disk[s], session) = Under(disk0[s], session)
                 /\ \A f \in Under(disk[s], session) :
                        disk[s].files[f] = disk0[s].files[f]

\* main completed, a run file of a listed session was deleted and an
\* unlisted session still holds its run files.
C22_Witness ==
    /\ IsDelete /\ pc = "done"
    /\ \E s \in Subjects, session \in Sessions :
          /\ <<s, session>> \in Listed
          /\ \E f \in Under(disk0[s], session) :
                f.run # 0 /\ f \notin DOMAIN disk[s].files
                /\ re_sub_run(f) \notin DOMAIN disk[s].files
    /\ \E s \in Subjects, session \in Sessions :
          /\ <<s, session>> \notin Listed
          /\ \E f \in Under(disk[s], session) : f.run # 0

\* The files a row of the csv file selects in a folder: those of the row's
\* directory whose name starts with sub-<SubjectID>_<session>_<use_run>.
Selected(folder, row) ==
    {f \in DOMAIN folder.files :
        /\ f.session = row.session /\ f.data_type = row.data_type
        /\ startswith(f, row)}

\* C29: 2_delete_excluded_runs.py renames the kept files before it deletes
\* any file, and when main has completed every file a row selected exists
\* with its content under its name without the run-NN_ token: no kept file
\* is deleted or overwritten by another kept file.
C29_KeptRunsSurvive ==
    IsDelete =>
        /\ (pc = "rename" => last.op # "delete_files")
        /\ (pc = "done" =>
              \A k \in 1..Len(df) :
                 LET s == df[k].SubjectID
                 IN  \A f \in Selected(disk0[s], df[k]) :
                        /\ re_sub_run(f) \in DOMAIN disk[s].files
                        /\ disk[s].files[re_sub_run(f)] = disk0[s].files[f])

(***************************************************************************)
(* Claims on split_epis and on the flip along axis 1 (SpecDwi, SpecUnit).  *)
(***************************************************************************)
SourceDwi == disk0["s1"].files[dwi_file].data

\* C24: split_epis of the wave 2 and wave 3 scripts, on an image of N
\* frames, writes source frame 0 to the AP epi file and source frame 1 to
\* the PA epi file, and overwrites the image with source frames 1..N-1 in
\* order: N-1 frames, of which the first is the frame of the PA epi.
C24_SplitEpis ==
    (script = "epis" /\ last.op = "split_epis") =>
        LET N == Len(SourceDwi)
            F == disk["s1"].files
        IN  /\ last.res = "run"
            /\ F[epi_ap_file].ndim = 3 /\ F[epi_ap_file].data = <<SourceDwi[1]>>
            /\ F[epi_pa_file].ndim = 3 /\ F[epi_pa_file].data = <<SourceDwi[2]>>
            /\ F[dwi_file].ndim = 4 /\ Len(F[dwi_file].data) = N - 1
            /\ \A k \in 1..(N - 1) : F[dwi_file].data[k] = SourceDwi[k + 1]
            /\ F[dwi_file].data[1] = F[epi_pa_file].data[1]

\* split_epis ran on an image whose first three frames differ.
C24_Witness ==
    /\ script = "epis" /\ last.op = "split_epis"
    /\ Len(SourceDwi) >= 3
    /\ SourceDwi[1] # SourceDwi[2] /\ SourceDwi[2] # SourceDwi[3]
    /\ Len(disk["s1"].files[dwi_file].data) = Len(SourceDwi) - 1

\* C25: the flip along axis 1 (np.flip(data, axis=1), as flip_ap_epi and
\* split_func_run apply it) is an involution: flipped twice, any array is
\* the original array, and an epi file that flip_ap_epi has flipped twice
\* holds the data it held before.
C25_FlipIsInvolution ==
    script = "epis" =>
        /\ \A p \in DOMAIN disk["s1"].files :
              np_flip(np_flip(disk["s1"].files[p].data)) = disk["s1"].files[p].data
        /\ np_flip(np_flip(SourceDwi)) = SourceDwi
        /\ pc = "flipped twice" =>
              disk["s1"].files[epi_ap_file].data = <<SourceDwi[1]>>

\* flip_ap_epi ran twice on a frame that one flip changes.
C25_Witness ==
    /\ script = "epis" /\ pc = "flipped twice"
    /\ last.op = "flip_ap_epi" /\ last.res = "run"
    /\ FlipY(SourceDwi[1]) # SourceDwi[1]
    /\ pre["s1"].files[epi_ap_file].data # disk["s1"].files[epi_ap_file].data

(***************************************************************************)
(* Claims on repeated and completed runs (Spec).                           *)
(***************************************************************************)
\* The iteration was the second one on a subject whose folder the first
\* iteration had changed.
SecondRun ==
    /\ Iter /\ idx = 3
    /\ subject_list[1] = subject_list[2]
    /\ Before # disk0[last.sub]

\* C26: a second run of the fMRI split/merge on a UCSD subject that was
\* already processed splits the merged bold file and flips its even frames
\* again, so that the merged image it writes is the original image, and
\* then fails on the removal of the PhaseEncodingDirection key, which the
\* first run removed.
C26_SecondRunFails ==
    (IsFmri /\ SecondRun /\ UCSDRun(disk0[last.sub])) =>
        /\ "PhaseEncodingDirection" \notin DOMAIN Before.files[bold_json].d
        /\ Ran("split_func_run") /\ Ran("merge_func_files")
        /\ ~Ran("edit_bold_json")
        /\ last.res = "raise"
        /\ After.files[bold_file].data = disk0[last.sub].files[bold_file].data
        /\ After.files[AP_file].data =
              np_flip(take(Before.files[bold_file].data,
                           indices_AP(Before.files[bold_file].data)))

\* The second run changed the merged image back and failed.
C26_Witness ==
    /\ IsFmri /\ SecondRun /\ UCSDRun(disk0[last.sub])
    /\ last.res = "raise"
    /\ After.files[bold_file].data # Before.files[bold_file].data

(***************************************************************************)
(* Claims on the gradient tables of the diffusion scripts (Spec).          *)
(***************************************************************************)
DwiImages(folder) ==
    {p \in DOMAIN folder.files :
        p.folder = "dwi" /\ p.suffix = "dwi" /\ p.ext = ".nii.gz"}

\* The .bval and .bvec files of image p exist and hold, in every row, as
\* many values as the image has frames.
TablesMatch(folder, p) ==
    \A ext \in {".bval", ".bvec"} :
        /\ Has(folder, WithExt(p, ext))
        /\ \A r \in 1..Len(folder.files[WithExt(p, ext)].rows) :
              Len(folder.files[WithExt(p, ext)].rows[r]) = NVols(folder, p)

\* The iteration of a diffusion script went through every step of a
\* processing function and reported no error.
DwiProcessed ==
    /\ IsDwiScript /\ Completed
    /\ Ran("create_epi_jsons") \/ Ran("create_single_shell_epi_jsons")
    /\ ~Printed("Error: Incorrect number of volumes in dwi file")

\* The tables the iteration started from match their images: those beside
\* each image, and for 3_correct_dwi_data_v3.py the subject's tables on the
\* share, which it copies beside the multi-shell image.
InputTablesMatch ==
    /\ \A p \in DwiImages(Before) : TablesMatch(Before, p)
    /\ script = "3_correct_dwi_data_v3.py" =>
          \A p \in DwiImages(Before), ext \in {".bval", ".bvec"} :
              (p.acq = "multi" /\ Has(Before, nas_path(ext))) =>
                  \A r \in 1..Len(Before.files[nas_path(ext)].rows) :
                      Len(Before.files[nas_path(ext)].rows[r]) = NVols(Before, p)

\* C27: after a diffusion script has processed a subject successfully, every
\* diffusion image of the subject has as many frames as its .bval file and
\* its .bvec file have values per row, provided this held for the images the
\* subject had before; this includes the wave 3 multi-shell image, of 56 or
\* 54 frames, whose tables are replaced by the template.
C27_TablesMatchFrames ==
    (DwiProcessed /\ InputTablesMatch) =>
        \A p \in DwiImages(After) : TablesMatch(After, p)

(***************************************************************************)
(* Claims on the two subject lists of 4_wave2_prep-fmri.py (Spec).         *)
(***************************************************************************)
\* The entries of seq at the indices in S, in order.
Pick(seq, S) ==
    LET F[k \in 0..Len(seq)] ==
            IF k = 0 THEN <<>>
            ELSE IF k \in S THEN Append(F[k - 1], seq[k]) ELSE F[k - 1]
    IN F[Len(seq)]

\* The functional run of the subject was processed to the end.
FuncProcessed(folder) ==
    /\ Has(folder, bold_json)
    /\ "TaskName" \in DOMAIN folder.files[bold_json].d

\* C28: while main of 4_wave2_prep-fmri.py runs and when it has completed,
\* every entry of the subject list that was iterated over is in exactly one
\* of successful_subjects and unsuccessful_subjects, exactly once and in
\* input order, and an entry is in successful_subjects only if its
\* functional run was processed to the end without error.
C28_SubjectsRecorded ==
    (script = "4_wave2_prep-fmri.py" /\ MainGoesOn) =>
        LET n == idx - 1
            seen == SubSeq(subject_list, 1, n)
        IN  \E S \in SUBSET (1..n) :
              /\ successful_subjects = Pick(seen, S)
              /\ unsuccessful_subjects = Pick(seen, (1..n) \ S)
              /\ Iter => (n \in S <=> last.res = "ok")
              /\ \A k \in S : FuncProcessed(disk[seen[k]])

\* main completed with a subject in each list.
C28_Witness ==
    /\ script = "4_wave2_prep-fmri.py" /\ pc = "done"
    /\ Len(subject_list) = 2
    /\ Len(successful_subjects) = 1 /\ Len(unsuccessful_subjects) = 1
    /\ successful_subjects[1] = subject_list[2]

\* The entries of the subject list that main recodes: names with a hyphen
\* whose id is in the key file.
InKey(subject) ==
    /\ \E j \in 1..Len(subject) : subject[j] = "sub-"
    /\ split_1(subject) \in DOMAIN get_vetsaid_to_cid(df)

\* The string s occurs in a value of the JSON content c.
InContents(c, s) == c.kind = "json" /\ \E k \in DOMAIN c.d : contains(c.d[k], s)

\* C23: 5_recode_to_cid: after main, for every processed subject whose
\* VETSAID is in the key file, the folder sub-<VETSAID> no longer exists and
\* sub-<CID> does, no file name under sub-<CID> contains the VETSAID, and no
\* JSON file under it contains the VETSAID anywhere in its contents.
C23_Recoded ==
    (script = "5_recode_to_cid.py" /\ pc = "done") =>
        \A i \in 1..Len(subject_list) :
            InKey(subject_list[i]) =>
                LET vetsaid == split_1(subject_list[i])
                    cid == get_vetsaid_to_cid(df)[vetsaid]
                IN  /\ sub_folder(vetsaid) \notin disk.dirs
                    /\ sub_folder(cid) \in disk.dirs
                    /\ \A p \in DOMAIN disk.files :
                          under(p, sub_folder(cid)) =>
                              /\ ~contains(basename(p), vetsaid)
                              /\ ~InContents(disk.files[p], vetsaid)

\* The entries of the subject list that name a folder whose id is not in
\* the key file.
Unknown(subject) ==
    /\ \E j \in 1..Len(subject) : subject[j] = "sub-"
    /\ split_1(subject) \notin DOMAIN get_vetsaid_to_cid(df)

\* The folder of the name exists in fs and every file under it in fs0 is in
\* fs under the same name with the same content.
KeepsFiles(subject, fs0, fs) ==
    subject \in fs0.dirs =>
        /\ subject \in fs.dirs
        /\ \A p \in DOMAIN fs0.files :
              under(p, subject) => p \in DOMAIN fs.files /\ fs.files[p] = fs0.files[p]

Entered == pc # "start"

\* The process ended in its entry block: main was not called.
MainNotCalled ==
    \/ pc \in {"exit 0", "exit 1", "exit 2"}
    \/ pc = "crashed" /\ last.op = "__main__"

\* The status the process ends with: the argument of sys.exit, and 1 after
\* an uncaught exception.
ExitsWith(code) ==
    \/ code = 0 /\ pc \in {"exit 0", "done"}
    \/ code = 1 /\ pc \in {"exit 1", "crashed"}
    \/ code = 2 /\ pc = "exit 2"

HasFlag(flag) == \E i \in 1..Len(argv) : argv[i] = flag

\* C21 as stated: every script exits with code 1, without calling main and
\* without touching any file, when it is started with a number of
\* command-line arguments other than two; no script takes flags.
C21_EveryScriptExitsOne ==
    (Entered /\ Len(argv) # 2) =>
        /\ ExitsWith(1)
        /\ MainNotCalled
        /\ disk = disk0

\* C21, amended: every script other than 5_recode_to_cid exits with code 1,
\* without calling main and without touching any file, when it is started
\* with a number of command-line arguments other than two, and of the seven
\* that import sys each calls main with any two arguments, flags or not;
\* 5_recode_to_cid takes flags, and started without -b or without -k it
\* ends without calling main and without touching any file, with code 2,
\* or with code 0 when -h asks for the help.
C21_ExitCodes ==
    /\ (script \in Scripts /\ Entered /\ Len(argv) # 2) =>
          /\ ExitsWith(1)
          /\ MainNotCalled
          /\ disk = disk0
    /\ (script \in Scripts \ {"4_wave2_fmri-sdc-ucsd.py"} /\ Entered /\ Len(argv) = 2) =>
          ~MainNotCalled
    /\ (script = "5_recode_to_cid.py" /\ Entered
            /\ (~HasFlag(<<"-b">>) \/ ~HasFlag(<<"-k">>))) =>
          /\ ExitsWith(2) \/ (HasFlag(<<"-h">>) /\ ExitsWith(0))
          /\ MainNotCalled
          /\ disk = disk0

C21_Witness ==
    /\ script = "3_wave1_correct_dwi_data.py"
    /\ argv = <<<<"-b">>, a_path, a_path>>
    /\ pc = "exit 1"
    /\ last.op = "__main__"
    /\ \E p \in DOMAIN disk["s1"].files : TRUE

====
